---- MODULE Spec2Model ----
(***************************************************************************)
(* Model of the plate navigator (src/src/platenavigator.js) and of the     *)
(* application glue that drives it (src/unnamed/part_003).                 *)
(*                                                                         *)
(* Numbers: JavaScript numbers are modelled as exact rationals             *)
(* [n |-> numerator, d |-> denominator], always kept normalised            *)
(* (d > 0, gcd(n, d) = 1), so record equality is numeric equality.         *)
(* Lengths are in mm, pointer offsets in CSS pixels.                       *)
(***************************************************************************)
EXTENDS Integers, Sequences, FiniteSets, TLC

(***************************************************************************)
(* Exact rational arithmetic                                               *)
(***************************************************************************)
Abs(a) == IF a < 0 THEN -a ELSE a

RECURSIVE GCD(_, _)
GCD(a, b) == IF b = 0 THEN a ELSE GCD(b, a % b)

Q(n, d) ==
    IF d = 1 THEN [n |-> n, d |-> 1]
    ELSE LET g == GCD(Abs(n), Abs(d))
             s == IF d < 0 THEN -1 ELSE 1
         IN  [n |-> (s * n) \div g, d |-> (s * d) \div g]

QInt(i) == [n |-> i, d |-> 1]

QNeg(a) == [n |-> -a.n, d |-> a.d]

\* common denominators and cross-cancelling keep the intermediate integers small
QAdd(a, b) ==
    IF a.d = b.d THEN Q(a.n + b.n, a.d)
    ELSE LET g == GCD(a.d, b.d)
         IN  Q(a.n * (b.d \div g) + b.n * (a.d \div g), (a.d \div g) * b.d)

QSub(a, b) == QAdd(a, QNeg(b))

QMul(a, b) ==
    IF a.d = 1 /\ b.d = 1 THEN [n |-> a.n * b.n, d |-> 1]
    ELSE LET g1 == GCD(Abs(a.n), b.d)
             g2 == GCD(Abs(b.n), a.d)
         IN  [n |-> (a.n \div g1) * (b.n \div g2), d |-> (a.d \div g2) * (b.d \div g1)]

QInv(a) == IF a.n < 0 THEN [n |-> -a.d, d |-> -a.n] ELSE [n |-> a.d, d |-> a.n]

QDiv(a, b) == QMul(a, QInv(b))

QLt(a, b) ==
    IF a.d = b.d THEN a.n < b.n
    ELSE LET g == GCD(a.d, b.d)
         IN  a.n * (b.d \div g) < b.n * (a.d \div g)

QLe(a, b) == ~QLt(b, a)

QMin(a, b) == IF QLt(b, a) THEN b ELSE a

QMax(a, b) == IF QLt(a, b) THEN b ELSE a

QZero == QInt(0)

QOne == QInt(1)

QTwo == QInt(2)

QHalf == Q(1, 2)

(***************************************************************************)
(* Plates offered by the server (wellplate_types)                          *)
(***************************************************************************)
Plate96 ==
    [ Model_id            |-> "revvity-96-6055302",
      Num_wells_x         |-> 12,
      Num_wells_y         |-> 8,
      Length_mm           |-> Q(12776, 100),
      Width_mm            |-> Q(8548, 100),
      Well_size_x_mm      |-> Q(64, 10),
      Well_size_y_mm      |-> Q(64, 10),
      Offset_A1_x_mm      |-> Q(1118, 100),
      Offset_A1_y_mm      |-> Q(804, 100),
      Well_distance_x_mm  |-> QInt(9),
      Well_distance_y_mm  |-> QInt(9) ]

Plate384 ==
    [ Model_id            |-> "revvity-384-6057800",
      Num_wells_x         |-> 24,
      Num_wells_y         |-> 16,
      Length_mm           |-> Q(12776, 100),
      Width_mm            |-> Q(8548, 100),
      Well_size_x_mm      |-> Q(326, 100),
      Well_size_y_mm      |-> Q(326, 100),
      Offset_A1_x_mm      |-> Q(1050, 100),
      Offset_A1_y_mm      |-> Q(736, 100),
      Well_distance_x_mm  |-> Q(45, 10),
      Well_distance_y_mm  |-> Q(45, 10) ]

\* a second 96-well plate type: the layout of Plate96 under another model id
Plate96Other == [ Plate96 EXCEPT !.Model_id = "generic-96" ]

(***************************************************************************)
(* Pure layout functions                                                   *)
(***************************************************************************)
\* calculateWellPosition without the flip of the row axis
calculateWellPositionUnflipped(p, x, y) ==
    [ x |-> QAdd(p.Offset_A1_x_mm, QMul(QInt(x), p.Well_distance_x_mm)),
      y |-> QAdd(p.Offset_A1_y_mm, QMul(QInt(y), p.Well_distance_y_mm)) ]

calculateWellPosition(p, x, y) ==
    [ x |-> QAdd(p.Offset_A1_x_mm, QMul(QInt(x), p.Well_distance_x_mm)),
      y |-> QAdd(p.Offset_A1_y_mm,
                 QMul(QInt(p.Num_wells_y - 1 - y), p.Well_distance_y_mm)) ]

calculateSitePosition(wellX_mm, wellY_mm, wellSizeX_mm, wellSizeY_mm, siteX, siteY, gridNumX, gridNumY, deltaX_mm, deltaY_mm, fovX, fovY) ==
    [ x |-> QAdd(QSub(QAdd(wellX_mm, QDiv(wellSizeX_mm, QTwo)),
                      QDiv(QAdd(fovX, QMul(QInt(gridNumX - 1), deltaX_mm)), QTwo)),
                 QMul(QInt(siteX), deltaX_mm)),
      y |-> QAdd(QSub(QAdd(wellY_mm, QDiv(wellSizeY_mm, QTwo)),
                      QDiv(QAdd(fovY, QMul(QInt(gridNumY - 1), deltaY_mm)), QTwo)),
                 QMul(QInt(gridNumY - 1 - siteY), deltaY_mm)) ]

calculateSitePositionPython(wellX_mm, wellY_mm, wellSizeX_mm, wellSizeY_mm, siteX, siteY, gridNumX, gridNumY, deltaX_mm, deltaY_mm) ==
    [ x |-> QAdd(QSub(QAdd(wellX_mm, QDiv(wellSizeX_mm, QTwo)),
                      QMul(QDiv(QInt(gridNumX - 1), QTwo), deltaX_mm)),
                 QMul(QInt(siteX), deltaX_mm)),
      y |-> QAdd(QSub(QAdd(wellY_mm, QDiv(wellSizeY_mm, QTwo)),
                      QMul(QDiv(QInt(gridNumY - 1), QTwo), deltaY_mm)),
                 QMul(QInt(siteY), deltaY_mm)) ]

transformBackendToDisplayCoordinates(x_mm, y_mm, p) ==
    [ x |-> x_mm, y |-> QSub(p.Width_mm, y_mm) ]

(***************************************************************************)
(* makeWellName: strings are TLC strings, characters one-letter strings    *)
(***************************************************************************)
Letters ==
    << "A", "B", "C", "D", "E", "F", "G", "H", "I", "J", "K", "L", "M",
       "N", "O", "P", "Q", "R", "S", "T", "U", "V", "W", "X", "Y", "Z",
       "a", "b", "c", "d", "e", "f", "g", "h", "i", "j", "k", "l", "m",
       "n", "o", "p", "q", "r", "s", "t", "u", "v", "w", "x", "y", "z" >>

Digits == << "0", "1", "2", "3", "4", "5", "6", "7", "8", "9" >>

\* "A".charCodeAt(0)
CharCodeUpperA == 65

\* "a".charCodeAt(0)
CharCodeLowerA == 97

\* String.fromCharCode for the letter codes 65..90 and 97..122
fromCharCode(c) ==
    IF c < CharCodeLowerA THEN Letters[c - CharCodeUpperA + 1]
    ELSE Letters[c - CharCodeLowerA + 27]

\* Number.prototype.toString for non-negative integers
RECURSIVE toString(_)
toString(i) ==
    IF i < 10 THEN Digits[i + 1]
    ELSE toString(i \div 10) \o Digits[(i % 10) + 1]

\* String.prototype.repeat
RECURSIVE repeat(_, _)
repeat(s, k) == IF k <= 0 THEN "" ELSE s \o repeat(s, k - 1)

makeWellName(x, y) ==
    LET letter  == IF y < 26 THEN fromCharCode(CharCodeUpperA + y)
                   ELSE fromCharCode(CharCodeLowerA + (y - 26))
        xstring == toString(x + 1)
        xlen    == Len(xstring)
        pad     == repeat("0", IF 2 - xlen > 0 THEN 2 - xlen ELSE 0)
    IN  (letter \o pad) \o xstring

(***************************************************************************)
(* Camera arithmetic.  A camera value c holds the orthographic frustum     *)
(* this.camera.{left,right,top,bottom} and the zoom factor this.cam.zoom.  *)
(***************************************************************************)
\* a pan that moves the box by the pixel distance, whatever the zoom
cameraApplyDeltaPosUnscaled(c, pos) ==
    [ c EXCEPT !.left   = QSub(@, pos.x),
               !.right  = QSub(@, pos.x),
               !.top    = QAdd(@, pos.y),
               !.bottom = QAdd(@, pos.y) ]

cameraApplyDeltaPos(c, pos) ==
    [ c EXCEPT !.left   = QSub(@, QMul(pos.x, c.zoom)),
               !.right  = QSub(@, QMul(pos.x, c.zoom)),
               !.top    = QAdd(@, QMul(pos.y, c.zoom)),
               !.bottom = QAdd(@, QMul(pos.y, c.zoom)) ]

cameraZoomAbsoluteToRelative(c, zoom) == QSub(QDiv(zoom, c.zoom), QOne)

\* cameraApplyDeltaZoom with the zoom factor scaled by delta instead of 1 + delta
cameraApplyDeltaZoomByDelta(c, delta, ratio) ==
    [ zoom   |-> QMul(c.zoom, delta),
      left   |-> QSub(c.left, QMul(QMul(QSub(c.right, c.left), ratio.x), delta)),
      right  |-> QAdd(c.right, QMul(QMul(QSub(c.right, c.left), QSub(QOne, ratio.x)), delta)),
      top    |-> QAdd(c.top, QMul(QMul(QSub(c.top, c.bottom), ratio.y), delta)),
      bottom |-> QSub(c.bottom, QMul(QMul(QSub(c.top, c.bottom), QSub(QOne, ratio.y)), delta)) ]

cameraApplyDeltaZoom(c, delta, ratio) ==
    LET deltax == QSub(c.right, c.left)
        deltay == QSub(c.top, c.bottom)
    IN  [ zoom   |-> QMul(c.zoom, QAdd(QOne, delta)),
          left   |-> QSub(c.left, QMul(QMul(deltax, ratio.x), delta)),
          right  |-> QAdd(c.right, QMul(QMul(deltax, QSub(QOne, ratio.x)), delta)),
          top    |-> QAdd(c.top, QMul(QMul(deltay, ratio.y), delta)),
          bottom |-> QSub(c.bottom, QMul(QMul(deltay, QSub(QOne, ratio.y)), delta)) ]

\* default value of the ratio parameter of cameraApplyDeltaZoom
DefaultRatio == [x |-> QHalf, y |-> QHalf]

cameraCenter(c) ==
    [ x |-> QAdd(c.left, QDiv(QSub(c.right, c.left), QTwo)),
      y |-> QAdd(c.bottom, QDiv(QSub(c.top, c.bottom), QTwo)) ]

cameraSetCenter(c, pos) ==
    LET camera_center == cameraCenter(c)
        delta == [ x |-> QNeg(QSub(pos.x, camera_center.x)),
                   y |-> QSub(pos.y, camera_center.y) ]
    IN  cameraApplyDeltaPos(c, delta)

cameraFit(c, aabb) ==
    LET extentx == QSub(aabb.bx, aabb.ax)
        centerx == QAdd(aabb.ax, QDiv(extentx, QTwo))
        extenty == QSub(aabb.by, aabb.ay)
        centery == QAdd(aabb.ay, QDiv(extenty, QTwo))
        c1      == cameraSetCenter(c, [x |-> centerx, y |-> centery])
        targetzoomx == QDiv(extentx, QSub(c1.right, c1.left))
        targetzoomy == QDiv(extenty, QSub(c1.top, c1.bottom))
        targetzoom  == QMax(targetzoomx, targetzoomy)
    IN  cameraApplyDeltaZoom(c1, cameraZoomAbsoluteToRelative(c1, targetzoom), DefaultRatio)

\* the frustum the constructor and loadPlate give a canvas of size f, with zoom 1
cameraOfFrame(f) ==
    [ left   |-> Q(-f.width, 2),
      right  |-> Q(f.width, 2),
      top    |-> Q(f.height, 2),
      bottom |-> Q(-f.height, 2),
      zoom   |-> QOne ]

plateAabb(p) == [ax |-> QZero, ay |-> QZero, bx |-> p.Length_mm, by |-> p.Width_mm]

\* absent object reference (JavaScript null / undefined)
NULL == [null |-> TRUE]

\* the point of camera (display) space under a pixel of the canvas, as
\* mouseToPlateCoordinates computes it before clamping
cameraPointOf(c, canvas, offsetX, offsetY) ==
    [ x |-> QAdd(c.left, QMul(Q(offsetX, canvas.width), QSub(c.right, c.left))),
      y |-> QAdd(c.bottom, QMul(QSub(QOne, Q(offsetY, canvas.height)), QSub(c.top, c.bottom))) ]

\* clampToPlate without the clamp
clampToPlateUnclamped(p, cameraXY) ==
    [ x |-> cameraXY.x, y |-> QSub(p.Width_mm, cameraXY.y) ]

\* clamp to the plate in display space, then flip y into backend coordinates
clampToPlate(p, cameraXY) ==
    [ x |-> QMax(QZero, QMin(p.Length_mm, cameraXY.x)),
      y |-> QSub(p.Width_mm, QMax(QZero, QMin(p.Width_mm, cameraXY.y))) ]

\* mouseToPlateCoordinates(event); canvas is the canvas' bounding rectangle
mouseToPlateCoordinates(p, c, canvas, offsetX, offsetY) ==
    IF p = NULL THEN NULL
    ELSE clampToPlate(p, cameraPointOf(c, canvas, offsetX, offsetY))

\* a validation that accepts only points strictly inside the plate
isPositionValidInside(p, x_mm, y_mm) ==
    IF p = NULL THEN FALSE
    ELSE /\ QLt(QZero, x_mm) /\ QLt(x_mm, p.Length_mm)
         /\ QLt(QZero, y_mm) /\ QLt(y_mm, p.Width_mm)

isPositionValid(p, x_mm, y_mm) ==
    IF p = NULL THEN FALSE
    ELSE IF \/ QLt(x_mm, QZero) \/ QLt(p.Length_mm, x_mm)
            \/ QLt(y_mm, QZero) \/ QLt(p.Width_mm, y_mm)
         THEN FALSE
         ELSE TRUE

(***************************************************************************)
(* Configuration document (microscope_config) owned by the application     *)
(***************************************************************************)
\* wells in creation order: rows outermost, columns innermost
createPlateWells(wellplate) ==
    [ i \in 1..(wellplate.Num_wells_x * wellplate.Num_wells_y) |->
        [ col      |-> (i - 1) % wellplate.Num_wells_x,
          row      |-> (i - 1) \div wellplate.Num_wells_x,
          selected |-> FALSE ] ]

\* the site mask updatePlate builds: columns outermost, rows innermost, all selected
newMasks(grid) ==
    [ i \in 1..(grid.num_x * grid.num_y) |->
        [ col      |-> (i - 1) \div grid.num_y,
          row      |-> (i - 1) % grid.num_y,
          selected |-> TRUE ] ]

\* default acquisition grid of the configuration served to the application
DefaultGrid ==
    [ num_x |-> 3, delta_x_mm |-> QOne, num_y |-> 3, delta_y_mm |-> QOne ]

\* field of view of the objective, this.objective = {fovx: 0.9, fovy: 0.9}
Objective == [fovx |-> Q(9, 10), fovy |-> Q(9, 10)]

\* Array.prototype.filter
filter(s, Test(_)) == SelectSeq(s, Test)

isRealWell(w) == w.col >= 0 /\ w.row >= 0

\* AABB test that takes a box ending where the other begins for separated
aabbIntersectsHalfOpen(a, b) ==
    ~ ( \/ QLe(a.maxX, b.minX)
        \/ QLt(b.maxX, a.minX)
        \/ QLe(a.maxY, b.minY)
        \/ QLt(b.maxY, a.minY) )

\* AABB test shared by well and site selection: not separated along any axis
aabbIntersects(a, b) ==
    ~ ( \/ QLt(a.maxX, b.minX)
        \/ QLt(b.maxX, a.minX)
        \/ QLt(a.maxY, b.minY)
        \/ QLt(b.maxY, a.minY) )

Min(a, b) == IF a < b THEN a ELSE b

Max(a, b) == IF a > b THEN a ELSE b

\* toggleWellSelectionRange that takes from for the upper-left corner
toggleWellSelectionRangeFromFirst(plate_wells, start_selected_well, from, to) ==
    IF from = NULL \/ to = NULL
    THEN [ plate_wells |-> plate_wells, start_selected_well |-> NULL ]
    ELSE [ plate_wells |->
             [ i \in 1..Len(plate_wells) |->
                 LET well == plate_wells[i] IN
                 IF well.row < 0 \/ well.col < 0 THEN well
                 ELSE IF /\ well.row >= from.row /\ well.row <= to.row
                         /\ well.col >= from.col /\ well.col <= to.col
                      THEN [well EXCEPT !.selected = ~from.selected]
                      ELSE well ],
           start_selected_well |-> start_selected_well ]

\* toggleWellSelectionRange(from, to): plate_wells and start_selected_well after
\* the call
toggleWellSelectionRange(plate_wells, start_selected_well, from, to) ==
    IF from = NULL \/ to = NULL
    THEN [ plate_wells |-> plate_wells, start_selected_well |-> NULL ]
    ELSE LET target_status == ~from.selected
             lower_row  == Min(from.row, to.row)
             higher_row == Max(from.row, to.row)
             lower_col  == Min(from.col, to.col)
             higher_col == Max(from.col, to.col)
         IN  [ plate_wells |->
                 [ i \in 1..Len(plate_wells) |->
                     LET well == plate_wells[i] IN
                     IF well.row < 0 \/ well.col < 0 THEN well
                     ELSE IF /\ well.row >= lower_row /\ well.row <= higher_row
                             /\ well.col >= lower_col /\ well.col <= higher_col
                          THEN [well EXCEPT !.selected = target_status]
                          ELSE well ],
               start_selected_well |-> start_selected_well ]

\* selectWellsByNames that flips the flag of each named well
selectWellsByNamesToggling(plate_wells, wellNames, mode) ==
    [ i \in 1..Len(plate_wells) |->
        LET well == plate_wells[i] IN
        IF ~isRealWell(well) THEN well
        ELSE IF \E k \in 1..Len(wellNames) : wellNames[k] = makeWellName(well.col, well.row)
             THEN [well EXCEPT !.selected = ~@]
             ELSE well ]

\* selectWellsByNames: the flags after the loop over plate_wells
selectWellsByNames(plate_wells, wellNames, mode) ==
    [ i \in 1..Len(plate_wells) |->
        LET well == plate_wells[i] IN
        IF ~isRealWell(well) THEN well
        ELSE IF \E k \in 1..Len(wellNames) : wellNames[k] = makeWellName(well.col, well.row)
             THEN [well EXCEPT !.selected = (mode = "select")]
             ELSE well ]

\* selectSitesByWellArea: the site AABB around sitePos, using the FOV size
siteFootprintAt(sitePos) ==
    [ minX |-> QSub(sitePos.x, QDiv(Objective.fovx, QTwo)),
      maxX |-> QAdd(sitePos.x, QDiv(Objective.fovx, QTwo)),
      minY |-> QSub(sitePos.y, QDiv(Objective.fovy, QTwo)),
      maxY |-> QAdd(sitePos.y, QDiv(Objective.fovy, QTwo)) ]

\* selectSitesByWellArea: the footprint of a site in the well at (wellCol, wellRow),
\* in backend coordinates
siteFootprint(cfg, site, wellCol, wellRow) ==
    LET plateConfig == cfg.wellplate_type
        gridConfig  == cfg.grid
        wellX_mm == QAdd(plateConfig.Offset_A1_x_mm, QMul(QInt(wellCol), plateConfig.Well_distance_x_mm))
        wellY_mm == QAdd(plateConfig.Offset_A1_y_mm, QMul(QInt(wellRow), plateConfig.Well_distance_y_mm))
    IN  siteFootprintAt(calculateSitePositionPython(wellX_mm, wellY_mm,
                            plateConfig.Well_size_x_mm, plateConfig.Well_size_y_mm,
                            site.col, site.row, gridConfig.num_x, gridConfig.num_y,
                            gridConfig.delta_x_mm, gridConfig.delta_y_mm))

\* selectSitesByWellArea: is the site's footprint in the well at (wellCol, wellRow) hit
siteHit(cfg, site, wellCol, wellRow, selectionBounds) ==
    aabbIntersects(siteFootprint(cfg, site, wellCol, wellRow), selectionBounds)

\* is some well entry at (wellCol, wellRow) selected
wellSelectedAt(cfg, wellCol, wellRow) ==
    \E k \in 1..Len(cfg.plate_wells) :
        /\ cfg.plate_wells[k].row = wellRow
        /\ cfg.plate_wells[k].col = wellCol
        /\ cfg.plate_wells[k].selected

\* selectSitesByWellArea that tests the sites of every well, selected or not
selectSitesInAllWells(cfg, mode, selectionBounds) ==
    [ i \in 1..Len(cfg.grid.mask) |->
        LET site == cfg.grid.mask[i] IN
        IF \E wellRow \in 0..(cfg.wellplate_type.Num_wells_y - 1) :
             \E wellCol \in 0..(cfg.wellplate_type.Num_wells_x - 1) :
                siteHit(cfg, site, wellCol, wellRow, selectionBounds)
        THEN [site EXCEPT !.selected = (mode = "select")]
        ELSE site ]

\* selectSitesByWellArea: the mask after the loops over wells and sites
selectSitesByWellArea(cfg, mode, selectionBounds) ==
    [ i \in 1..Len(cfg.grid.mask) |->
        LET site == cfg.grid.mask[i] IN
        IF \E wellRow \in 0..(cfg.wellplate_type.Num_wells_y - 1) :
             \E wellCol \in 0..(cfg.wellplate_type.Num_wells_x - 1) :
                /\ wellSelectedAt(cfg, wellCol, wellRow)
                /\ siteHit(cfg, site, wellCol, wellRow, selectionBounds)
        THEN [site EXCEPT !.selected = (mode = "select")]
        ELSE site ]

(***************************************************************************)
(* Scene graph: the named children of this.scene, in insertion order.      *)
(* The unnamed selection-box meshes are counted apart (sceneBoxes).        *)
(***************************************************************************)
objectNamePlate == "plate"

objectNameWells == "wells"

objectNameWellsSelected == "wellsSelected"

objectNameSites == "sites"

objectNameSitesSelected == objectNameSites \o "_selected"

objectNameSitesUnselected == objectNameSites \o "_unselected"

objectNameText == "wellLabels"

objectNameForbiddenAreas == "forbiddenAreas"

objectNameOuterOutline == "outerOutline"

objectNameInnerOutline == "innerOutline"

\* scene.getObjectByName(name) finds something
hasObject(sc, name) == \E i \in 1..Len(sc) : sc[i].name = name

\* scene.remove(scene.getObjectByName(name)): the first object of that name goes
removeObject(sc, name) ==
    IF ~hasObject(sc, name) THEN sc
    ELSE LET k == CHOOSE i \in 1..Len(sc) :
                     /\ sc[i].name = name
                     /\ \A j \in 1..(i - 1) : sc[j].name # name
         IN  [ i \in 1..(Len(sc) - 1) |-> IF i < k THEN sc[i] ELSE sc[i + 1] ]

RECURSIVE removeObjects(_, _)
removeObjects(sc, names) ==
    IF names = << >> THEN sc
    ELSE removeObjects(removeObject(sc, Head(names)), Tail(names))

\* matrix slot of an InstancedMesh that setMatrixAt never wrote
Unset == [unset |-> TRUE]

\* new THREE.InstancedMesh(geometry, material, count), then setMatrixAt(0..) with
\* the given translations in order; writes past count are dropped by the buffer
instancedMesh(name, count, positions) ==
    [ name     |-> name,
      count    |-> count,
      matrices |-> [ i \in 1..count |->
                        IF i <= Len(positions) THEN positions[i] ELSE Unset ] ]

isSelectedWell(w) == w.selected /\ w.col >= 0 /\ w.row >= 0

isUnselectedWell(w) == ~w.selected /\ w.col >= 0 /\ w.row >= 0

isSelectedSite(st) == st.selected

isUnselectedSite(st) == ~st.selected

\* translations of the wells of ws, in order
wellPositions(p, ws) ==
    [ i \in 1..Len(ws) |-> calculateWellPosition(p, ws[i].col, ws[i].row) ]

\* translations of the sites ss drawn in every well of ws: wells outermost
sitePositions(p, grid, ws, ss) ==
    [ i \in 1..(Len(ws) * Len(ss)) |->
        LET well    == ws[((i - 1) \div Len(ss)) + 1]
            site    == ss[((i - 1) % Len(ss)) + 1]
            wellPos == calculateWellPosition(p, well.col, well.row)
        IN  calculateSitePosition(wellPos.x, wellPos.y, p.Well_size_x_mm, p.Well_size_y_mm,
                                  site.col, site.row, grid.num_x, grid.num_y,
                                  grid.delta_x_mm, grid.delta_y_mm,
                                  Objective.fovx, Objective.fovy) ]

\* the quad drawn for a site: site_quad (0..fovx, 0..fovy) translated to the
\* site's position in the well at (wellCol, wellRow), in display coordinates
siteQuad(p, grid, site, wellCol, wellRow) ==
    LET wellPos == calculateWellPosition(p, wellCol, wellRow)
        sitePos == calculateSitePosition(wellPos.x, wellPos.y, p.Well_size_x_mm, p.Well_size_y_mm,
                                         site.col, site.row, grid.num_x, grid.num_y,
                                         grid.delta_x_mm, grid.delta_y_mm,
                                         Objective.fovx, Objective.fovy)
    IN  [ minX |-> sitePos.x, maxX |-> QAdd(sitePos.x, Objective.fovx),
          minY |-> sitePos.y, maxY |-> QAdd(sitePos.y, Objective.fovy) ]

\* append the batch unless it would be empty (the mesh is then never created)
addBatch(sc, name, positions) ==
    IF Len(positions) > 0 THEN Append(sc, instancedMesh(name, Len(positions), positions))
    ELSE sc

\* refreshWellColors that draws the sites of every well, selected or not
refreshWellColorsAllWells(sc, p, cfg) ==
    IF p = NULL THEN sc
    ELSE
        LET cleared == removeObjects(sc, << objectNameWells, objectNameWellsSelected,
                                           objectNameSitesSelected, objectNameSitesUnselected,
                                           objectNameSites >>)
            s1 == addBatch(cleared, objectNameWells,
                           wellPositions(p, filter(cfg.plate_wells, isUnselectedWell)))
            s2 == addBatch(s1, objectNameWellsSelected,
                           wellPositions(p, filter(cfg.plate_wells, isSelectedWell)))
            s3 == addBatch(s2, objectNameSitesSelected,
                           sitePositions(p, cfg.grid, filter(cfg.plate_wells, isRealWell),
                                         filter(cfg.grid.mask, isSelectedSite)))
        IN  addBatch(s3, objectNameSitesUnselected,
                     sitePositions(p, cfg.grid, filter(cfg.plate_wells, isRealWell),
                                   filter(cfg.grid.mask, isUnselectedSite)))

refreshWellColors(sc, p, cfg) ==
    IF p = NULL THEN sc
    ELSE
        LET cleared == removeObjects(sc, << objectNameWells, objectNameWellsSelected,
                                           objectNameSitesSelected, objectNameSitesUnselected,
                                           objectNameSites >>)
            valid_wells      == filter(cfg.plate_wells, isSelectedWell)
            unselected_wells == filter(cfg.plate_wells, isUnselectedWell)
            sites_sel        == filter(cfg.grid.mask, isSelectedSite)
            sites_unsel      == filter(cfg.grid.mask, isUnselectedSite)
            s1 == addBatch(cleared, objectNameWells, wellPositions(p, unselected_wells))
            s2 == addBatch(s1, objectNameWellsSelected, wellPositions(p, valid_wells))
            s3 == addBatch(s2, objectNameSitesSelected,
                           sitePositions(p, cfg.grid, valid_wells, sites_sel))
        IN  addBatch(s3, objectNameSitesUnselected,
                     sitePositions(p, cfg.grid, valid_wells, sites_unsel))

\* clearState: the loop over forbiddenAreas_0, forbiddenAreas_1, ...
RECURSIVE clearForbiddenAreas(_, _)
clearForbiddenAreas(sc, i) ==
    IF i >= 100 THEN sc
    ELSE LET forbiddenAreaName == (objectNameForbiddenAreas \o "_") \o toString(i) IN
         IF hasObject(sc, forbiddenAreaName)
         THEN clearForbiddenAreas(removeObject(sc, forbiddenAreaName), i + 1)
         ELSE IF i > 10 THEN sc
              ELSE clearForbiddenAreas(sc, i + 1)

clearState(sc, oldplate, newplate) ==
    LET samePlate == /\ oldplate # NULL
                     /\ newplate # NULL
                     /\ oldplate.Model_id = newplate.Model_id
        objectNamesToRemove ==
            IF samePlate THEN << objectNameSites >>
            ELSE << objectNameSites, objectNamePlate, objectNameWells,
                    objectNameWellsSelected, objectNameText,
                    objectNameOuterOutline, objectNameInnerOutline >>
    IN  removeObjects(clearForbiddenAreas(sc, 0), objectNamesToRemove)

(***************************************************************************)
(* performWellSelection: what is handed to the selection callback          *)
(***************************************************************************)
\* the smallest box with the two corners a and b
boundsOf(a, b) ==
    [ minX |-> QMin(a.x, b.x), maxX |-> QMax(a.x, b.x),
      minY |-> QMin(a.y, b.y), maxY |-> QMax(a.y, b.y) ]

\* column and row of every well of the plate, rows outermost
plateCells(p) ==
    [ i \in 1..(p.Num_wells_x * p.Num_wells_y) |->
        [ x |-> (i - 1) % p.Num_wells_x, y |-> (i - 1) \div p.Num_wells_x ] ]

\* display-space bounds of the well at wellPos
wellBounds(p, wellPos) ==
    [ minX |-> wellPos.x,
      maxX |-> QAdd(wellPos.x, p.Well_size_x_mm),
      minY |-> wellPos.y,
      maxY |-> QAdd(wellPos.y, p.Well_size_y_mm) ]

\* names of the given wells, in order
wellNamesOf(cells) == [ i \in 1..Len(cells) |-> makeWellName(cells[i].x, cells[i].y) ]

wellsInBox(p, selectionBoxDisplay) ==
    LET intersects(cell) == aabbIntersects(wellBounds(p, calculateWellPosition(p, cell.x, cell.y)), selectionBoxDisplay)
    IN  wellNamesOf(SelectSeq(plateCells(p), intersects))

\* the arguments of the callback, from the selection box in backend coordinates
wellSelectionCall(p, mode, selectionBoxBackend) ==
    [ wellNames       |-> wellsInBox(p, boundsOf(
                              transformBackendToDisplayCoordinates(selectionBoxBackend.minX, selectionBoxBackend.minY, p),
                              transformBackendToDisplayCoordinates(selectionBoxBackend.maxX, selectionBoxBackend.maxY, p))),
      mode            |-> mode,
      selectionBounds |-> selectionBoxBackend ]

\* performWellSelection that never reaches the callback
performWellSelectionSilent(p, c, canvas, sel, registered) == << >>

\* performWellSelection: the calls of the selection callback it makes
performWellSelection(p, c, canvas, sel, registered) ==
    IF p = NULL \/ ~registered THEN << >>
    ELSE << wellSelectionCall(p, sel.mode, boundsOf(
                mouseToPlateCoordinates(p, c, canvas, sel.start.x, sel.start.y),
                mouseToPlateCoordinates(p, c, canvas, sel.current.x, sel.current.y))) >>

\* scale and position updateSelectionBox gives the box mesh
selectionBoxGeometry(p, c, canvas, sel) ==
    LET startBackend   == mouseToPlateCoordinates(p, c, canvas, sel.start.x, sel.start.y)
        currentBackend == mouseToPlateCoordinates(p, c, canvas, sel.current.x, sel.current.y)
        startDisplay   == transformBackendToDisplayCoordinates(startBackend.x, startBackend.y, p)
        currentDisplay == transformBackendToDisplayCoordinates(currentBackend.x, currentBackend.y, p)
        minX == QMin(startDisplay.x, currentDisplay.x)
        maxX == QMax(startDisplay.x, currentDisplay.x)
        minY == QMin(startDisplay.y, currentDisplay.y)
        maxY == QMax(startDisplay.y, currentDisplay.y)
    IN  [ width   |-> QMax(QSub(maxX, minX), Q(1, 10)),
          height  |-> QMax(QSub(maxY, minY), Q(1, 10)),
          centerX |-> QAdd(minX, QDiv(QSub(maxX, minX), QTwo)),
          centerY |-> QAdd(minY, QDiv(QSub(maxY, minY), QTwo)) ]

\* the mesh createSelectionBox makes: scale (0.1, 0.1), at the origin
newSelectionBox ==
    [ width |-> Q(1, 10), height |-> Q(1, 10), centerX |-> QZero, centerY |-> QZero ]

(***************************************************************************)
(* WebSocketManager                                                        *)
(***************************************************************************)
\* The manager's state m: connections maps a name to the position of its
\* connectionData in sockets (0: the Map has no entry); a member of sockets is
\* one connectionData together with the WebSocket it was made for, that
\* socket's readyState and the autoReconnect constant of its handlers'
\* closure; timers are the pending reconnect timeouts, oldest first.
\* origin, closedSince and event are history: who asked for the socket, was
\* closeConnection called while the timeout was pending, which step ran last.
WsNames == { "status", "image" }

WsEndpoints == { "/ws/get_info/current_state", "/ws/get_info/acquired_image" }

WsOptions == [ autoReconnect : BOOLEAN ]

NewManager ==
    [ connections |-> [ n \in WsNames |-> 0 ], sockets |-> << >>, timers |-> << >>,
      event |-> [ op |-> "constructor", ws |-> 0 ] ]

ByCaller == [ by |-> "caller", closedSince |-> FALSE ]

\* WebSocket.close() of the browser: an open or connecting socket starts
\* closing; closing a socket that never opened fails its connection
wsClose(sockets, s) ==
    IF sockets[s].readyState \in { "CLOSING", "CLOSED" } THEN sockets
    ELSE [ sockets EXCEPT ![s].readyState = "CLOSING",
                          ![s].failed = (sockets[s].readyState = "CONNECTING") ]

\* the existing connection's socket is closed unless it is closed already
closeExisting(m, name) ==
    IF m.connections[name] # 0 /\ m.sockets[m.connections[name]].readyState # "CLOSED"
    THEN wsClose(m.sockets, m.connections[name])
    ELSE m.sockets

createConnection(m, name, endpoint, options, origin) ==
    [ m EXCEPT !.sockets = Append(closeExisting(m, name),
                                  [ name |-> name, endpoint |-> endpoint, options |-> options,
                                    autoReconnect |-> options.autoReconnect,
                                    readyState |-> "CONNECTING", failed |-> FALSE,
                                    reconnectAttempts |-> 0, origin |-> origin ]),
               !.connections[name] = Len(m.sockets) + 1 ]

scheduleReconnect(m, name) ==
    IF m.connections[name] = 0 THEN m
    ELSE [ m EXCEPT !.sockets[m.connections[name]].reconnectAttempts = @ + 1,
                    !.timers = Append(@, [ name |-> name, connectionData |-> m.connections[name],
                                          closedSince |-> FALSE ]) ]

\* ws.onerror of socket s, after the caller's callbacks
onerror(m, s) ==
    IF m.sockets[s].autoReconnect /\ m.connections[m.sockets[s].name] = s
    THEN scheduleReconnect(m, m.sockets[s].name)
    ELSE m

\* ws.onclose of socket s, after the caller's callbacks
onclose(m, s) ==
    IF m.sockets[s].autoReconnect /\ m.connections[m.sockets[s].name] = s
    THEN scheduleReconnect(m, m.sockets[s].name)
    ELSE m

\* the pending timeouts for name, marked as older than a closeConnection call
timersClosed(timers, name) ==
    [ i \in DOMAIN timers |-> IF timers[i].name = name
                              THEN [ timers[i] EXCEPT !.closedSince = TRUE ]
                              ELSE timers[i] ]

\* options.autoReconnect is set to false and restored around ws.close(), which
\* dispatches no event before it returns
closeConnection(m, name) ==
    [ m EXCEPT !.sockets = closeExisting(m, name),
               !.connections[name] = 0,
               !.timers = timersClosed(m.timers, name) ]

\* the callback scheduleReconnect gave to setTimeout, for the oldest timeout
reconnectTimeout(m) ==
    IF m.connections[Head(m.timers).name] # 0
    THEN createConnection([ m EXCEPT !.timers = Tail(@) ], Head(m.timers).name,
                          m.sockets[Head(m.timers).connectionData].endpoint,
                          m.sockets[Head(m.timers).connectionData].options,
                          [ by |-> "reconnect", closedSince |-> Head(m.timers).closedSince ])
    ELSE [ m EXCEPT !.timers = Tail(@) ]

\* the browser closes socket s: the error event, if the connection failed,
\* and the close event are dispatched in one task
socketClosed(m, s, failed) ==
    IF failed THEN onclose(onerror([ m EXCEPT !.sockets[s].readyState = "CLOSED" ], s), s)
    ELSE onclose([ m EXCEPT !.sockets[s].readyState = "CLOSED" ], s)

(***************************************************************************)
(* State                                                                   *)
(***************************************************************************)
VARIABLES
    frame,                \* size of the container / canvas in pixels
    camera,               \* this.camera frustum and this.cam.zoom
    drag,                 \* pan session of the constructor closure
    selection,            \* selection session of the constructor closure
    sceneBoxes,           \* number of selection-box meshes among the scene's children
    scene,                \* named children of this.scene, in insertion order
    plate,                \* this.plate
    onObjectiveMoveTo,    \* is a move callback registered
    onWellSelection,      \* is a selection callback registered
    microscope_config,    \* the application's configuration document
    plateSelectionMode,   \* "wells" or "sites"
    saveTimeout,          \* is a debounced save of the configuration pending
    plateCursorPosition,  \* alpineComponent.plateCursorPosition
    objectiveFovPos,      \* position of objectiveFovGroup
    load,                 \* the updatePlate / loadPlate call in flight, if any
    fontLoaded,           \* has the promise this.font resolved
    used,                 \* wheel events, pans, fits and plate loads so far
    last,                 \* the handler that ran last and what it did to its collaborators
    wn,                   \* argument and result of a makeWellName call
    fcall,                \* arguments and result of a call of one of the pure functions
    wsm,                  \* the WebSocketManager, its sockets and its reconnect timeouts
    load2                 \* a second updatePlate / loadPlate call in flight, started during the first

vars == << frame, camera, drag, selection, sceneBoxes, scene, plate, onObjectiveMoveTo,
           onWellSelection, microscope_config, plateSelectionMode, saveTimeout,
           plateCursorPosition, objectiveFovPos, load, fontLoaded, used, last, wn, fcall, wsm, load2 >>

(***************************************************************************)
(* Bounds and inputs                                                       *)
(***************************************************************************)
\* wheel events delivered at most
MaxWheel == 1

\* camera pans (mouse moves while dragging) delivered at most
MaxPan == 1

\* calls of cameraFit by the application at most
MaxFit == 1

\* selection-box meshes in the scene at most
MaxSceneBoxes == 2

\* calls of updatePlate at most
MaxLoad == 1

\* largest column and row index tried on makeWellName
MaxWellIndex == 27

\* canvas sizes tried
Frames == { [width |-> 3194, height |-> 2637] }

\* two pointer positions (offsetX, offsetY) over the plate: with the camera fitted
\* they are the physical points (5 mm, 5 mm) and (25 mm, 25 mm)
PlateOffsets == { [x |-> 125, y |-> 375], [x |-> 625, y |-> 875] }

\* pointer positions tried for every pointer event; with the camera fitted the
\* last one lies on the canvas but below the plate
PointerOffsets == PlateOffsets \cup { [x |-> 125, y |-> 2600] }

\* a pointer position outside the canvas, tried for pointer moves
OutsideOffsets == { [x |-> -50, y |-> 2700] }

\* event.button values: primary, auxiliary (middle), secondary (right)
Buttons == {0, 1, 2}

\* wheel event.deltaY values tried
WheelDeltas == {-250, 500}

\* plates the server offers (plateinfo.allplates)
AllPlates == << Plate96 >>

\* answers of the forbidden-area provider tried
ForbiddenAreaAnswers ==
    { << >>,
      << [ name |-> "slot", min_x_mm |-> QZero, max_x_mm |-> QInt(10),
           min_y_mm |-> QZero, max_y_mm |-> QInt(10) ] >> }

\* stage positions reported by the microscope
StagePositions == { [x |-> QInt(10), y |-> QInt(20)] }

(***************************************************************************)
(* Observation of a handler run                                            *)
(***************************************************************************)
\* mouseToPlateCoordinates was not called by the handler
NotCalled == [notCalled |-> TRUE]

Observation(op, ev) ==
    [ op            |-> op,
      event         |-> ev,
      wasSelecting  |-> selection.active,
      wellSelection |-> << >>,
      moveTo        |-> << >>,
      warned        |-> FALSE,
      coords        |-> NotCalled ]

NoEvent == [none |-> TRUE]

(***************************************************************************)
(* Initial state: initPlateNavigator has constructed the navigator, fitted *)
(* the camera to the configured plate and registered both callbacks.       *)
(***************************************************************************)
Init ==
    /\ frame \in Frames
    /\ microscope_config =
          [ wellplate_type |-> AllPlates[1],
            plate_wells    |-> createPlateWells(AllPlates[1]),
            grid           |-> [ num_x |-> DefaultGrid.num_x, delta_x_mm |-> DefaultGrid.delta_x_mm,
                                 num_y |-> DefaultGrid.num_y, delta_y_mm |-> DefaultGrid.delta_y_mm,
                                 mask  |-> << >> ] ]
    /\ camera = cameraFit(cameraOfFrame(frame), plateAabb(AllPlates[1]))
    /\ drag = [active |-> FALSE, last |-> [x |-> 0, y |-> 0]]
    /\ selection = [ active |-> FALSE, mode |-> "select", start |-> [x |-> 0, y |-> 0],
                     current |-> [x |-> 0, y |-> 0], box |-> NULL ]
    /\ sceneBoxes = 0
    /\ scene = << >>
    /\ plate = NULL
    /\ onObjectiveMoveTo = TRUE
    /\ onWellSelection = TRUE
    /\ plateSelectionMode = "wells"
    /\ saveTimeout = FALSE
    /\ plateCursorPosition = NULL
    /\ objectiveFovPos = [x |-> QZero, y |-> QZero]
    /\ load = [pc |-> "idle"]
    /\ fontLoaded = FALSE
    /\ used = [wheel |-> 0, pan |-> 0, fit |-> 0, load |-> 0]
    /\ last = [ op |-> "initPlateNavigator", event |-> NoEvent, wasSelecting |-> FALSE,
                wellSelection |-> << >>, moveTo |-> << >>, warned |-> FALSE,
                coords |-> NotCalled ]
    /\ wn = NULL
    /\ fcall = NULL
    /\ wsm = NewManager
    /\ load2 = [pc |-> "idle"]

\* no continuation of an already resolved promise is waiting to run: such a
\* continuation is a microtask and runs before any further event is delivered
Quiescent == ~(fontLoaded /\ (load.pc = "font" \/ load2.pc = "font"))

(***************************************************************************)
(* Pointer handlers of the canvas                                          *)
(***************************************************************************)
\* selectionModeOf that selects with the primary button only
selectionModeOfPrimary(button) == IF button = 0 THEN "select" ELSE "deselect"

\* mode of a selection session started with the given button
selectionModeOf(button) == IF button = 2 THEN "deselect" ELSE "select"

\* el.addEventListener("mousedown", ...)
MouseDown(e) ==
    /\ Quiescent
    /\ IF e.shiftKey
       THEN /\ sceneBoxes < MaxSceneBoxes
            /\ drag' = [drag EXCEPT !.active = FALSE]
            /\ selection' = [ active  |-> TRUE,
                              mode    |-> selectionModeOf(e.button),
                              start   |-> [x |-> e.offsetX, y |-> e.offsetY],
                              current |-> [x |-> e.offsetX, y |-> e.offsetY],
                              box     |-> newSelectionBox ]
            /\ sceneBoxes' = sceneBoxes + 1
       ELSE /\ drag' = [active |-> TRUE, last |-> [x |-> e.offsetX, y |-> e.offsetY]]
            /\ UNCHANGED << selection, sceneBoxes >>
    /\ last' = Observation("mousedown", [shiftKey |-> e.shiftKey, button |-> e.button])
    /\ UNCHANGED << frame, camera, scene, plate, onObjectiveMoveTo, onWellSelection,
                    microscope_config, plateSelectionMode, saveTimeout, plateCursorPosition,
                    objectiveFovPos, load, fontLoaded, used, wn, fcall, wsm, load2 >>

\* the configuration after the selection callback of initPlateNavigator ran
configAfterSelection(cfg, selMode, call) ==
    IF selMode = "wells"
    THEN [cfg EXCEPT !.plate_wells = selectWellsByNames(cfg.plate_wells, call.wellNames, call.mode)]
    ELSE IF selMode = "sites"
         THEN [cfg EXCEPT !.grid.mask = selectSitesByWellArea(cfg, call.mode, call.selectionBounds)]
         ELSE cfg

\* does the selection callback refresh the view and schedule a save
selectionRefreshes(cfg, cfg1, selMode) ==
    \/ selMode = "wells"
    \/ (selMode = "sites" /\ cfg1.grid.mask # cfg.grid.mask)

\* clearSelectionBox that forgets to take the mesh out of the scene
clearSelectionBoxKeeping(sel, boxes) ==
    [selection |-> [sel EXCEPT !.box = NULL], sceneBoxes |-> boxes]

\* clearSelectionBox: the session without its box, and the boxes left in the scene
clearSelectionBox(sel, boxes) ==
    IF sel.box # NULL
    THEN [selection |-> [sel EXCEPT !.box = NULL], sceneBoxes |-> boxes - 1]
    ELSE [selection |-> sel, sceneBoxes |-> boxes]

\* the part of the mouseup handler that depends on the callback calls made
MouseUpCalls(calls) ==
    /\ microscope_config' =
          IF Len(calls) > 0
          THEN configAfterSelection(microscope_config, plateSelectionMode, calls[1])
          ELSE microscope_config
    /\ LET refresh == /\ Len(calls) > 0
                      /\ selectionRefreshes(microscope_config, microscope_config', plateSelectionMode)
       IN  /\ scene' = IF refresh THEN refreshWellColors(scene, plate, microscope_config')
                       ELSE scene
           /\ saveTimeout' = (saveTimeout \/ refresh)
    /\ last' = [Observation("mouseup", NoEvent) EXCEPT !.wellSelection = calls]

\* el.addEventListener("mouseup", ...)
MouseUp ==
    /\ Quiescent
    /\ MouseUpCalls(IF selection.active
                    THEN performWellSelection(plate, camera, frame, selection, onWellSelection)
                    ELSE << >>)
    /\ selection' = IF selection.active
                    THEN clearSelectionBox([selection EXCEPT !.active = FALSE], sceneBoxes).selection
                    ELSE selection
    /\ sceneBoxes' = IF selection.active
                     THEN clearSelectionBox(selection, sceneBoxes).sceneBoxes
                     ELSE sceneBoxes
    /\ drag' = [drag EXCEPT !.active = FALSE]
    /\ UNCHANGED << frame, camera, plate, onObjectiveMoveTo, onWellSelection,
                    plateSelectionMode, plateCursorPosition, objectiveFovPos, load,
                    fontLoaded, used, wn, fcall, wsm, load2 >>

\* el.addEventListener("mousemove", ...)
MouseMove(e) ==
    /\ Quiescent
    /\ LET plateCoords == mouseToPlateCoordinates(plate, camera, frame, e.offsetX, e.offsetY)
           sel1 == [selection EXCEPT !.current = [x |-> e.offsetX, y |-> e.offsetY]]
       IN  /\ plateCursorPosition' = IF plateCoords # NULL THEN plateCoords
                                     ELSE plateCursorPosition
           /\ last' = [Observation("mousemove", NoEvent) EXCEPT !.coords = plateCoords]
           /\ IF selection.active
              THEN /\ selection' =
                         IF sel1.box = NULL \/ plate = NULL THEN sel1
                         ELSE [sel1 EXCEPT !.box = selectionBoxGeometry(plate, camera, frame, sel1)]
                   /\ UNCHANGED << camera, drag, used >>
              ELSE IF drag.active
                   THEN /\ used.pan < MaxPan
                        /\ camera' = cameraApplyDeltaPos(camera,
                                        [ x |-> QInt(e.offsetX - drag.last.x),
                                          y |-> QInt(e.offsetY - drag.last.y) ])
                        /\ drag' = [drag EXCEPT !.last = [x |-> e.offsetX, y |-> e.offsetY]]
                        /\ used' = [used EXCEPT !.pan = @ + 1]
                        /\ UNCHANGED selection
                   ELSE UNCHANGED << camera, drag, selection, used >>
    /\ UNCHANGED << frame, sceneBoxes, scene, plate, onObjectiveMoveTo, onWellSelection,
                    microscope_config, plateSelectionMode, saveTimeout, objectiveFovPos,
                    load, fontLoaded, wn, fcall, wsm, load2 >>

\* el.addEventListener("mouseleave", ...)
MouseLeave ==
    /\ Quiescent
    /\ plateCursorPosition' = NULL
    /\ last' = Observation("mouseleave", NoEvent)
    /\ UNCHANGED << frame, camera, drag, selection, sceneBoxes, scene, plate,
                    onObjectiveMoveTo, onWellSelection, microscope_config,
                    plateSelectionMode, saveTimeout, objectiveFovPos, load, fontLoaded,
                    used, wn, fcall, wsm, load2 >>

\* el.addEventListener("dblclick", ...): handleDoubleClick
DblClick(e) ==
    /\ Quiescent
    /\ LET plateCoords == mouseToPlateCoordinates(plate, camera, frame, e.offsetX, e.offsetY)
           obs == Observation("dblclick", e)
       IN  last' =
             IF plate = NULL THEN obs
             ELSE IF plateCoords # NULL /\ onObjectiveMoveTo
                  THEN IF isPositionValid(plate, plateCoords.x, plateCoords.y)
                       THEN [obs EXCEPT !.coords = plateCoords, !.moveTo = << plateCoords >>]
                       ELSE [obs EXCEPT !.coords = plateCoords, !.warned = TRUE]
                  ELSE [obs EXCEPT !.coords = plateCoords]
    /\ UNCHANGED << frame, camera, drag, selection, sceneBoxes, scene, plate,
                    onObjectiveMoveTo, onWellSelection, microscope_config,
                    plateSelectionMode, saveTimeout, plateCursorPosition, objectiveFovPos,
                    load, fontLoaded, used, wn, fcall, wsm, load2 >>

\* scroll_speed of the wheel handler
scroll_speed == Q(2, 1000)

\* containerel.addEventListener("wheel", ...)
Wheel(e) ==
    /\ Quiescent
    /\ used.wheel < MaxWheel
    /\ LET delta_zoom == QMul(QInt(e.deltaY), scroll_speed)
           xratio == Q(e.offsetX, frame.width)
           yratio == Q(e.offsetY, frame.height)
       IN  camera' = cameraApplyDeltaZoom(camera, delta_zoom, [x |-> xratio, y |-> yratio])
    /\ used' = [used EXCEPT !.wheel = @ + 1]
    /\ last' = Observation("wheel", NoEvent)
    /\ UNCHANGED << frame, drag, selection, sceneBoxes, scene, plate, onObjectiveMoveTo,
                    onWellSelection, microscope_config, plateSelectionMode, saveTimeout,
                    plateCursorPosition, objectiveFovPos, load, fontLoaded, wn, fcall, wsm, load2 >>

\* a call of the public method cameraFit(aabb)
CameraFit(aabb) ==
    /\ Quiescent
    /\ used.fit < MaxFit
    /\ camera' = cameraFit(camera, aabb)
    /\ used' = [used EXCEPT !.fit = @ + 1]
    /\ last' = Observation("cameraFit", aabb)
    /\ UNCHANGED << frame, drag, selection, sceneBoxes, scene, plate, onObjectiveMoveTo,
                    onWellSelection, microscope_config, plateSelectionMode, saveTimeout,
                    plateCursorPosition, objectiveFovPos, load, fontLoaded, wn, fcall, wsm, load2 >>

(***************************************************************************)
(* Application calls into the navigator                                    *)
(***************************************************************************)
\* this.plateNavigator.refreshWellColors(this.microscope_config)
RefreshWellColors ==
    /\ Quiescent
    /\ scene' = refreshWellColors(scene, plate, microscope_config)
    /\ last' = Observation("refreshWellColors", NoEvent)
    /\ UNCHANGED << frame, camera, drag, selection, sceneBoxes, plate, onObjectiveMoveTo,
                    onWellSelection, microscope_config, plateSelectionMode, saveTimeout,
                    plateCursorPosition, objectiveFovPos, load, fontLoaded, used, wn, fcall, wsm, load2 >>

\* this.plateNavigator.updateObjectivePosition(x_mm, y_mm)
UpdateObjectivePosition(pos) ==
    /\ Quiescent
    /\ objectiveFovPos' = IF plate = NULL THEN objectiveFovPos
                          ELSE transformBackendToDisplayCoordinates(pos.x, pos.y, plate)
    /\ last' = Observation("updateObjectivePosition", NoEvent)
    /\ UNCHANGED << frame, camera, drag, selection, sceneBoxes, scene, plate,
                    onObjectiveMoveTo, onWellSelection, microscope_config,
                    plateSelectionMode, saveTimeout, plateCursorPosition, load,
                    fontLoaded, used, wn, fcall, wsm, load2 >>

\* the user switches between selecting wells and selecting sites
SetPlateSelectionMode(m) ==
    /\ Quiescent
    /\ plateSelectionMode # m
    /\ plateSelectionMode' = m
    /\ last' = Observation("setPlateSelectionMode", NoEvent)
    /\ UNCHANGED << frame, camera, drag, selection, sceneBoxes, scene, plate,
                    onObjectiveMoveTo, onWellSelection, microscope_config, saveTimeout,
                    plateCursorPosition, objectiveFovPos, load, fontLoaded, used, wn, fcall, wsm, load2 >>

\* the debounce timer of saveCurrentConfig fires
SaveTimerFires ==
    /\ Quiescent
    /\ saveTimeout
    /\ saveTimeout' = FALSE
    /\ last' = Observation("saveMicroscopeConfigToStorage", NoEvent)
    /\ UNCHANGED << frame, camera, drag, selection, sceneBoxes, scene, plate,
                    onObjectiveMoveTo, onWellSelection, microscope_config,
                    plateSelectionMode, plateCursorPosition, objectiveFovPos, load,
                    fontLoaded, used, wn, fcall, wsm, load2 >>

\* the font file arrives and this.font resolves
FontResolves ==
    /\ ~fontLoaded
    /\ fontLoaded' = TRUE
    /\ UNCHANGED << frame, camera, drag, selection, sceneBoxes, scene, plate,
                    onObjectiveMoveTo, onWellSelection, microscope_config,
                    plateSelectionMode, saveTimeout, plateCursorPosition, objectiveFovPos,
                    load, used, last, wn, fcall, wsm, load2 >>

(***************************************************************************)
(* updatePlate -> setPlate -> loadPlate, cut at loadPlate's two awaits     *)
(***************************************************************************)
\* this.plateinfo.allplates.find((p) => p.Model_id == newplate_Model_id)
findPlate(allplates, id) ==
    allplates[CHOOSE i \in 1..Len(allplates) : allplates[i].Model_id = id]

plateById(id) == findPlate(AllPlates, id)

plateNumWells(p) == p.Num_wells_x * p.Num_wells_y

\* updatePlate: the condition under which createPlateWells replaces plate_wells
needsNewWells(oldplate, newplate, force_override, hasSelectedWells) ==
    /\ (plateNumWells(newplate) # plateNumWells(oldplate) \/ force_override)
    /\ ~(force_override /\ hasSelectedWells)

\* updatePlate up to its await, and loadPlate up to the forbidden-area fetch, with
\* allplates the plate types known to the application
\* updatePlate up to its await and the part of loadPlate before its first
\* await: the configuration, the plate and the scene they leave
updatePlateStart(allplates, newplate_Model_id, force_override) ==
    LET isString == "id" \in DOMAIN newplate_Model_id
        oldplate == microscope_config.wellplate_type
        selectedplate == IF isString THEN findPlate(allplates, newplate_Model_id.id)
                         ELSE oldplate
        hasSelectedWells ==
            \E i \in 1..Len(microscope_config.plate_wells) :
                isSelectedWell(microscope_config.plate_wells[i])
        recreate == /\ isString
                    /\ needsNewWells(oldplate, selectedplate, force_override, hasSelectedWells)
    IN  [ microscope_config |->
              [ microscope_config EXCEPT
                  !.wellplate_type = selectedplate,
                  !.plate_wells = IF recreate THEN createPlateWells(selectedplate) ELSE @,
                  !.grid.mask = newMasks(microscope_config.grid) ],
          recreate |-> recreate,
          scene |-> Append(clearState(scene, plate, selectedplate),
                           [name |-> objectNamePlate, aabb |-> plateAabb(selectedplate)]),
          plate |-> selectedplate ]

UpdatePlateCall(allplates, newplate_Model_id, force_override) ==
    /\ Quiescent
    /\ load.pc = "idle"
    /\ microscope_config' =
          updatePlateStart(allplates, newplate_Model_id, force_override).microscope_config
    /\ saveTimeout' =
          (saveTimeout \/ updatePlateStart(allplates, newplate_Model_id, force_override).recreate)
    /\ scene' = updatePlateStart(allplates, newplate_Model_id, force_override).scene
    /\ plate' = updatePlateStart(allplates, newplate_Model_id, force_override).plate
    /\ load' = [ pc |-> "fetch", previous |-> plate,
                 plate |-> updatePlateStart(allplates, newplate_Model_id, force_override).plate ]
    /\ camera' = cameraOfFrame(frame)
    /\ used' = [used EXCEPT !.load = @ + 1]
    /\ last' = Observation("updatePlate", newplate_Model_id)
    /\ UNCHANGED << frame, drag, selection, sceneBoxes, onObjectiveMoveTo, onWellSelection,
                    plateSelectionMode, plateCursorPosition, objectiveFovPos, fontLoaded, wn, fcall, wsm, load2 >>

\* the call, as often as the bound on loads allows
UpdatePlateBeginIn(allplates, newplate_Model_id, force_override) ==
    /\ used.load < MaxLoad
    /\ UpdatePlateCall(allplates, newplate_Model_id, force_override)

UpdatePlateBegin(newplate_Model_id, force_override) ==
    UpdatePlateBeginIn(AllPlates, newplate_Model_id, force_override)

isNumber(v) == v # NULL

isValidArea(area) ==
    /\ isNumber(area.min_x_mm) /\ isNumber(area.max_x_mm)
    /\ isNumber(area.min_y_mm) /\ isNumber(area.max_y_mm)

\* display-space quad of one forbidden area
forbiddenQuad(area, p) ==
    LET minCoords == transformBackendToDisplayCoordinates(area.min_x_mm, area.min_y_mm, p)
        maxCoords == transformBackendToDisplayCoordinates(area.max_x_mm, area.max_y_mm, p)
    IN  [ ax |-> minCoords.x, ay |-> QMin(minCoords.y, maxCoords.y),
          bx |-> maxCoords.x, by |-> QMax(minCoords.y, maxCoords.y) ]

\* loadPlate between the answer of fetchForbiddenAreas and `await this.font`,
\* for the call ld: the scene, and the batches the call decides to create
loadPlateFetched(sc, ld, cfg, forbiddenAreas) ==
    LET p      == ld.plate
        valid  == SelectSeq(forbiddenAreas, isValidArea)
        s1     == IF Len(valid) > 0
                  THEN Append(sc, [ name  |-> objectNameForbiddenAreas,
                                    quads |-> [ i \in 1..Len(valid) |-> forbiddenQuad(valid[i], p) ] ])
                  ELSE sc
        s2     == removeObjects(s1, << objectNameOuterOutline, objectNameInnerOutline >>)
        s3     == s2 \o << [name |-> objectNameOuterOutline, aabb |-> plateAabb(p)],
                           [name |-> objectNameInnerOutline, aabb |-> plateAabb(p)] >>
        valid_wells      == filter(cfg.plate_wells, isSelectedWell)
        unselected_wells == filter(cfg.plate_wells, isUnselectedWell)
        num_sites_selected   == Len(valid_wells) * Len(filter(cfg.grid.mask, isSelectedSite))
        num_sites_unselected == Len(valid_wells) * Len(filter(cfg.grid.mask, isUnselectedSite))
    IN  [ scene |-> s3,
          load |->
             [ pc   |-> "font",
               plate |-> p,
               previous |-> ld.previous,
               well_quads |->
                   IF ~hasObject(s3, objectNameWells) /\ Len(unselected_wells) > 0
                   THEN [count |-> Len(unselected_wells)] ELSE NULL,
               well_selected_quads |->
                   IF ~hasObject(s3, objectNameWellsSelected) /\ Len(valid_wells) > 0
                   THEN [count |-> Len(valid_wells)] ELSE NULL,
               site_quads_selected |->
                   IF ~hasObject(s3, objectNameSitesSelected) /\ num_sites_selected > 0
                   THEN [count |-> num_sites_selected] ELSE NULL,
               site_quads_unselected |->
                   IF ~hasObject(s3, objectNameSitesUnselected) /\ num_sites_unselected > 0
                   THEN [count |-> num_sites_unselected] ELSE NULL,
               text_geometries |-> ~hasObject(s3, objectNameText) ] ]

UpdatePlateFetched(forbiddenAreas) ==
    /\ Quiescent
    /\ load.pc = "fetch"
    /\ scene' = loadPlateFetched(scene, load, microscope_config, forbiddenAreas).scene
    /\ load' = loadPlateFetched(scene, load, microscope_config, forbiddenAreas).load
    /\ camera' = cameraFit(camera, plateAabb(load.plate))
    /\ last' = Observation("loadPlate:fetched", NoEvent)
    /\ UNCHANGED << frame, drag, selection, sceneBoxes, plate, onObjectiveMoveTo,
                    onWellSelection, microscope_config, plateSelectionMode, saveTimeout,
                    plateCursorPosition, objectiveFovPos, fontLoaded, used, wn, fcall, wsm, load2 >>

\* text and position of the label of each real well
wellLabels(p, ws) ==
    [ i \in 1..Len(ws) |->
        [ text |-> makeWellName(ws[i].col, ws[i].row),
          at   |-> calculateWellPosition(p, ws[i].col, ws[i].row) ] ]

\* loadPlate after the font: the scene when loadPlate returns, with ld the
\* meshes created before the await
loadPlateFinish(sc, ld, cfg) ==
    LET p   == ld.plate
        real             == filter(cfg.plate_wells, isRealWell)
        valid_wells      == filter(cfg.plate_wells, isSelectedWell)
        unselected_wells == filter(cfg.plate_wells, isUnselectedWell)
        s1 == IF ld.text_geometries
              THEN Append(sc, [name |-> objectNameText, labels |-> wellLabels(p, real)])
              ELSE sc
        s2 == IF ld.well_quads # NULL
              THEN Append(s1, instancedMesh(objectNameWells, ld.well_quads.count,
                                            wellPositions(p, unselected_wells)))
              ELSE s1
        s3 == IF ld.well_selected_quads # NULL
              THEN Append(s2, instancedMesh(objectNameWellsSelected, ld.well_selected_quads.count,
                                            wellPositions(p, valid_wells)))
              ELSE s2
        s4 == IF ld.site_quads_selected # NULL /\ ~hasObject(s3, objectNameSitesSelected)
              THEN Append(s3, instancedMesh(objectNameSitesSelected, ld.site_quads_selected.count,
                                 sitePositions(p, cfg.grid, valid_wells,
                                               filter(cfg.grid.mask, isSelectedSite))))
              ELSE s3
    IN  IF ld.site_quads_unselected # NULL /\ ~hasObject(s4, objectNameSitesUnselected)
        THEN Append(s4, instancedMesh(objectNameSitesUnselected, ld.site_quads_unselected.count,
                           sitePositions(p, cfg.grid, valid_wells,
                                         filter(cfg.grid.mask, isUnselectedSite))))
        ELSE s4

\* loadPlate after the font, then the rest of updatePlate (refreshWellColors);
\* the observation keeps the plate loaded before and the scene as loadPlate left it
UpdatePlateFontLoaded ==
    /\ load.pc = "font"
    /\ fontLoaded
    /\ load2.pc # "font"
    /\ scene' = refreshWellColors(loadPlateFinish(scene, load, microscope_config),
                                  plate, microscope_config)
    /\ load' = [pc |-> "idle"]
    /\ last' = Observation("loadPlate:done",
                           [ previous |-> load.previous,
                             loaded   |-> loadPlateFinish(scene, load, microscope_config) ])
    /\ UNCHANGED << frame, camera, drag, selection, sceneBoxes, plate, onObjectiveMoveTo,
                    onWellSelection, microscope_config, plateSelectionMode, saveTimeout,
                    plateCursorPosition, objectiveFovPos, fontLoaded, used, wn, fcall, wsm, load2 >>

(***************************************************************************)
(* A call of makeWellName on its own                                       *)
(***************************************************************************)
\* the result slot of a call that has not returned yet
Pending == ""

MakeWellName ==
    /\ wn # NULL
    /\ wn.name = Pending
    /\ wn' = [wn EXCEPT !.name = makeWellName(wn.x, wn.y)]
    /\ UNCHANGED << frame, camera, drag, selection, sceneBoxes, scene, plate,
                    onObjectiveMoveTo, onWellSelection, microscope_config,
                    plateSelectionMode, saveTimeout, plateCursorPosition, objectiveFovPos,
                    load, fontLoaded, used, last, fcall, wsm, load2 >>

\* plate types known to the application when the plate type is switched
PlatesOffered == << Plate96, Plate96Other, Plate384 >>

\* updatePlate arguments: the model id of a plate type, or no string
SwitchPlateArgs == { [id |-> PlatesOffered[i].Model_id] : i \in 1..Len(PlatesOffered) } \cup { NULL }

\* the wells of plate type p with the first nsel of them selected
wellsWithSelected(p, nsel) ==
    [ i \in 1..Len(createPlateWells(p)) |->
        [ createPlateWells(p)[i] EXCEPT !.selected = (i <= nsel) ] ]

\* the mask of grid with its first ndesel entries deselected
maskWithDeselected(grid, ndesel) ==
    [ i \in 1..Len(newMasks(grid)) |->
        [ newMasks(grid)[i] EXCEPT !.selected = (i > ndesel) ] ]

\* configurations restored when the page is opened: a plate type, its wells
\* with or without selected ones, a mask with or without deselected sites
StoredConfigs ==
    { [ wellplate_type |-> PlatesOffered[t],
        plate_wells    |-> wellsWithSelected(PlatesOffered[t], nsel),
        grid           |-> [ num_x |-> DefaultGrid.num_x, delta_x_mm |-> DefaultGrid.delta_x_mm,
                             num_y |-> DefaultGrid.num_y, delta_y_mm |-> DefaultGrid.delta_y_mm,
                             mask  |-> maskWithDeselected(DefaultGrid, ndesel) ] ] :
        t \in 1..Len(PlatesOffered), nsel \in 0..2, ndesel \in 0..1 }

InitPlates ==
    /\ frame \in Frames
    /\ microscope_config \in StoredConfigs
    /\ camera = cameraFit(cameraOfFrame(frame), plateAabb(microscope_config.wellplate_type))
    /\ drag = [active |-> FALSE, last |-> [x |-> 0, y |-> 0]]
    /\ selection = [ active |-> FALSE, mode |-> "select", start |-> [x |-> 0, y |-> 0],
                     current |-> [x |-> 0, y |-> 0], box |-> NULL ]
    /\ sceneBoxes = 0
    /\ scene = << >>
    /\ plate = NULL
    /\ onObjectiveMoveTo = TRUE
    /\ onWellSelection = TRUE
    /\ plateSelectionMode = "wells"
    /\ saveTimeout = FALSE
    /\ plateCursorPosition = NULL
    /\ objectiveFovPos = [x |-> QZero, y |-> QZero]
    /\ load = [pc |-> "idle"]
    /\ fontLoaded = FALSE
    /\ used = [wheel |-> 0, pan |-> 0, fit |-> 0, load |-> 0]
    /\ last = [ op |-> "initPlateNavigator", event |-> NoEvent, wasSelecting |-> FALSE,
                wellSelection |-> << >>, moveTo |-> << >>, warned |-> FALSE,
                coords |-> NotCalled ]
    /\ wn = NULL
    /\ fcall = NULL
    /\ wsm = NewManager
    /\ load2 = [pc |-> "idle"]

\* updatePlate with each argument, run to its end
NextPlates ==
    \/ \E a \in SwitchPlateArgs, f \in BOOLEAN : UpdatePlateBeginIn(PlatesOffered, a, f)
    \/ UpdatePlateFetched(<< >>)
    \/ FontResolves
    \/ UpdatePlateFontLoaded

SpecPlates == InitPlates /\ [][NextPlates]_vars

\* selectWellsByNames(wellNames, mode): flags, redraw, save
SelectWellsByNames(wellNames, mode) ==
    /\ Quiescent
    /\ microscope_config' =
          [ microscope_config EXCEPT
              !.plate_wells = selectWellsByNames(microscope_config.plate_wells, wellNames, mode) ]
    /\ scene' = refreshWellColors(scene, plate, microscope_config')
    /\ saveTimeout' = TRUE
    /\ last' = Observation("selectWellsByNames", [wellNames |-> wellNames, mode |-> mode])
    /\ UNCHANGED << frame, camera, drag, selection, sceneBoxes, plate, onObjectiveMoveTo,
                    onWellSelection, plateSelectionMode, plateCursorPosition,
                    objectiveFovPos, load, fontLoaded, used, wn, fcall, wsm, load2 >>

\* positions of a stored plate_wells list: two header entries, then wells whose
\* names have two and three digits and an upper- or lower-case row letter
NamedPositions ==
    << [col |-> -1, row |-> 0], [col |-> 0, row |-> -1], [col |-> 0, row |-> 0],
       [col |-> 9, row |-> 0], [col |-> 10, row |-> 0], [col |-> 99, row |-> 0],
       [col |-> 0, row |-> 1], [col |-> 100, row |-> 26] >>

\* selected flags of the stored list: none, all, every second one
StoredFlags ==
    { [ i \in 1..Len(NamedPositions) |-> FALSE ],
      [ i \in 1..Len(NamedPositions) |-> TRUE ],
      [ i \in 1..Len(NamedPositions) |-> i % 2 = 0 ] }

\* name lists handed to selectWellsByNames: empty, one well, several wells, the
\* text a header entry would have, a name of no well, a repeated name
NameLists ==
    { << >>, << "A01" >>, << "A10", "A100" >>, << "A00", "B01" >>,
      << "a101", "Z99" >>, << "A11", "A01", "A11" >> }

InitNames ==
    /\ frame \in Frames
    /\ microscope_config \in
          { [ wellplate_type |-> AllPlates[1],
              plate_wells    |-> [ i \in 1..Len(NamedPositions) |->
                                     [ col |-> NamedPositions[i].col, row |-> NamedPositions[i].row,
                                       selected |-> flags[i] ] ],
              grid           |-> [ num_x |-> DefaultGrid.num_x, delta_x_mm |-> DefaultGrid.delta_x_mm,
                                   num_y |-> DefaultGrid.num_y, delta_y_mm |-> DefaultGrid.delta_y_mm,
                                   mask  |-> maskWithDeselected(DefaultGrid, ndesel) ] ] :
              flags \in StoredFlags, ndesel \in 0..1 }
    /\ camera = cameraFit(cameraOfFrame(frame), plateAabb(AllPlates[1]))
    /\ drag = [active |-> FALSE, last |-> [x |-> 0, y |-> 0]]
    /\ selection = [ active |-> FALSE, mode |-> "select", start |-> [x |-> 0, y |-> 0],
                     current |-> [x |-> 0, y |-> 0], box |-> NULL ]
    /\ sceneBoxes = 0
    /\ scene = << >>
    /\ plate = NULL
    /\ onObjectiveMoveTo = TRUE
    /\ onWellSelection = TRUE
    /\ plateSelectionMode = "wells"
    /\ saveTimeout = FALSE
    /\ plateCursorPosition = NULL
    /\ objectiveFovPos = [x |-> QZero, y |-> QZero]
    /\ load = [pc |-> "idle"]
    /\ fontLoaded = FALSE
    /\ used = [wheel |-> 0, pan |-> 0, fit |-> 0, load |-> 0]
    /\ last = [ op |-> "initPlateNavigator", event |-> NoEvent, wasSelecting |-> FALSE,
                wellSelection |-> << >>, moveTo |-> << >>, warned |-> FALSE,
                coords |-> NotCalled ]
    /\ wn = NULL
    /\ fcall = NULL
    /\ wsm = NewManager
    /\ load2 = [pc |-> "idle"]

NextNames ==
    \E names \in NameLists, mode \in {"select", "deselect"} : SelectWellsByNames(names, mode)

SpecNames == InitNames /\ [][NextNames]_vars

(***************************************************************************)
(* Specifications                                                          *)
(***************************************************************************)
MouseEvents ==
    { [shiftKey |-> sh, button |-> b, offsetX |-> o.x, offsetY |-> o.y] :
        sh \in BOOLEAN, b \in Buttons, o \in PointerOffsets }

ClickEvents == { [offsetX |-> o.x, offsetY |-> o.y] : o \in PointerOffsets }

MoveEvents == { [offsetX |-> o.x, offsetY |-> o.y] : o \in PointerOffsets \cup OutsideOffsets }

WheelEvents ==
    { [deltaY |-> d, offsetX |-> o.x, offsetY |-> o.y] : d \in WheelDeltas, o \in PointerOffsets }

\* boxes handed to cameraFit: the plate, and the quarter of it next to the origin
FitBoxes ==
    { plateAabb(AllPlates[1]),
      [ ax |-> QZero, ay |-> QZero,
        bx |-> QDiv(AllPlates[1].Length_mm, QTwo), by |-> QDiv(AllPlates[1].Width_mm, QTwo) ] }

UpdatePlateArgs == { [id |-> AllPlates[i].Model_id] : i \in 1..Len(AllPlates) }

\* the camera on its own: pan, wheel and fit on a navigator without a plate
NextCamera ==
    \/ \E e \in { ev \in MouseEvents : ~ev.shiftKey /\ ev.button = 0 } : MouseDown(e)
    \/ \E e \in MoveEvents : MouseMove(e)
    \/ MouseUp
    \/ \E e \in WheelEvents : Wheel(e)
    \/ \E aabb \in FitBoxes : CameraFit(aabb)

SpecCamera == Init /\ [][NextCamera]_vars

\* any sequence of pointer events and application calls, no plate loaded
NextGesture ==
    \/ \E e \in MouseEvents : MouseDown(e)
    \/ \E e \in MoveEvents : MouseMove(e)
    \/ MouseUp
    \/ MouseLeave
    \/ \E e \in ClickEvents : DblClick(e)
    \/ RefreshWellColors
    \/ \E pos \in StagePositions : UpdateObjectivePosition(pos)

SpecGesture == Init /\ [][NextGesture]_vars

\* no button is held: the previous gesture has ended
noGesture == ~selection.active /\ ~drag.active

\* gestures one after the other (pointer-down, moves, pointer-up), double-clicks
\* and application calls, no plate loaded
NextIdle ==
    \/ \E e \in MouseEvents : noGesture /\ MouseDown(e)
    \/ \E e \in MoveEvents : MouseMove(e)
    \/ MouseUp
    \/ MouseLeave
    \/ \E e \in ClickEvents : noGesture /\ DblClick(e)
    \/ RefreshWellColors
    \/ \E pos \in StagePositions : UpdateObjectivePosition(pos)

SpecIdle == Init /\ [][NextIdle]_vars

SelectEvents ==
    { [shiftKey |-> TRUE, button |-> b, offsetX |-> o.x, offsetY |-> o.y] :
        b \in Buttons, o \in PlateOffsets }

SelectMoves == { [offsetX |-> o.x, offsetY |-> o.y] : o \in PlateOffsets }

\* selection sessions over the plate, before, while and after it is loaded
NextSelect ==
    \/ \E e \in SelectEvents : MouseDown(e)
    \/ \E e \in SelectMoves : MouseMove(e)
    \/ MouseUp
    \/ \E a \in UpdatePlateArgs : UpdatePlateBegin(a, FALSE)
    \/ \E areas \in ForbiddenAreaAnswers : UpdatePlateFetched(areas)
    \/ FontResolves
    \/ UpdatePlateFontLoaded

SpecSelect == Init /\ [][NextSelect]_vars

\* double-clicks and pointer moves under a camera that is zoomed with the wheel,
\* before, while and after a plate is loaded
NextClick ==
    \/ \E e \in MoveEvents : MouseMove(e)
    \/ \E e \in ClickEvents : DblClick(e)
    \/ \E e \in WheelEvents : Wheel(e)
    \/ \E a \in UpdatePlateArgs : UpdatePlateBegin(a, FALSE)
    \/ \E areas \in ForbiddenAreaAnswers : UpdatePlateFetched(areas)
    \/ FontResolves
    \/ UpdatePlateFontLoaded

SpecClick == Init /\ [][NextClick]_vars

\* a pointer position inside well A01: with the camera fitted it is the physical
\* point (13.4 mm, 10.24 mm), on the footprint of the site (0, 0) of that well only
SiteOffsets == { [x |-> 335, y |-> 506] }

SiteSelectEvents ==
    { [shiftKey |-> TRUE, button |-> b, offsetX |-> o.x, offsetY |-> o.y] :
        b \in {0, 2}, o \in PlateOffsets \cup SiteOffsets }

SiteSelectMoves == { [offsetX |-> o.x, offsetY |-> o.y] : o \in PlateOffsets \cup SiteOffsets }

\* the plate is loaded and no load is in flight
plateShown == plate # NULL /\ load.pc = "idle"

\* a plate is loaded, then wells and sites are selected and deselected by
\* shift-drag gestures in either selection mode
NextSites ==
    \/ \E a \in UpdatePlateArgs : UpdatePlateBegin(a, FALSE)
    \/ UpdatePlateFetched(<< >>)
    \/ FontResolves
    \/ UpdatePlateFontLoaded
    \/ \E m \in {"wells", "sites"} : plateShown /\ SetPlateSelectionMode(m)
    \/ \E e \in SiteSelectEvents : plateShown /\ noGesture /\ MouseDown(e)
    \/ \E e \in SiteSelectMoves : plateShown /\ selection.active /\ MouseMove(e)
    \/ plateShown /\ MouseUp

SpecSites == Init /\ [][NextSites]_vars

\* selection gestures with the primary button and refreshes requested by the
\* application, before, while and after a plate is loaded
NextRedraw ==
    \/ \E e \in { ev \in SelectEvents : ev.button = 0 } : MouseDown(e)
    \/ \E e \in SelectMoves : MouseMove(e)
    \/ MouseUp
    \/ \E a \in UpdatePlateArgs : UpdatePlateBegin(a, FALSE)
    \/ UpdatePlateFetched(<< >>)
    \/ FontResolves
    \/ UpdatePlateFontLoaded
    \/ RefreshWellColors

SpecRedraw == Init /\ [][NextRedraw]_vars

\* makeWellName applied to every pair of indices up to MaxWellIndex
InitWellName ==
    /\ frame \in Frames
    /\ microscope_config =
          [ wellplate_type |-> AllPlates[1],
            plate_wells    |-> createPlateWells(AllPlates[1]),
            grid           |-> [ num_x |-> DefaultGrid.num_x, delta_x_mm |-> DefaultGrid.delta_x_mm,
                                 num_y |-> DefaultGrid.num_y, delta_y_mm |-> DefaultGrid.delta_y_mm,
                                 mask  |-> << >> ] ]
    /\ camera = cameraFit(cameraOfFrame(frame), plateAabb(AllPlates[1]))
    /\ drag = [active |-> FALSE, last |-> [x |-> 0, y |-> 0]]
    /\ selection = [ active |-> FALSE, mode |-> "select", start |-> [x |-> 0, y |-> 0],
                     current |-> [x |-> 0, y |-> 0], box |-> NULL ]
    /\ sceneBoxes = 0
    /\ scene = << >>
    /\ plate = NULL
    /\ onObjectiveMoveTo = TRUE
    /\ onWellSelection = TRUE
    /\ plateSelectionMode = "wells"
    /\ saveTimeout = FALSE
    /\ plateCursorPosition = NULL
    /\ objectiveFovPos = [x |-> QZero, y |-> QZero]
    /\ load = [pc |-> "idle"]
    /\ fontLoaded = FALSE
    /\ used = [wheel |-> 0, pan |-> 0, fit |-> 0, load |-> 0]
    /\ last = [ op |-> "initPlateNavigator", event |-> NoEvent, wasSelecting |-> FALSE,
                wellSelection |-> << >>, moveTo |-> << >>, warned |-> FALSE,
                coords |-> NotCalled ]
    /\ wn \in [x : 0..MaxWellIndex, y : 0..MaxWellIndex, name : {Pending}]
    /\ fcall = NULL
    /\ wsm = NewManager
    /\ load2 = [pc |-> "idle"]

NextWellName == MakeWellName

SpecWellName == InitWellName /\ [][NextWellName]_vars

(***************************************************************************)
(* Calls of the pure functions on their own                                *)
(***************************************************************************)
\* the navigator and the application as constructed, no call of makeWellName
Constructed ==
    /\ frame \in Frames
    /\ microscope_config =
          [ wellplate_type |-> AllPlates[1],
            plate_wells    |-> createPlateWells(AllPlates[1]),
            grid           |-> [ num_x |-> DefaultGrid.num_x, delta_x_mm |-> DefaultGrid.delta_x_mm,
                                 num_y |-> DefaultGrid.num_y, delta_y_mm |-> DefaultGrid.delta_y_mm,
                                 mask  |-> << >> ] ]
    /\ camera = cameraFit(cameraOfFrame(frame), plateAabb(AllPlates[1]))
    /\ drag = [active |-> FALSE, last |-> [x |-> 0, y |-> 0]]
    /\ selection = [ active |-> FALSE, mode |-> "select", start |-> [x |-> 0, y |-> 0],
                     current |-> [x |-> 0, y |-> 0], box |-> NULL ]
    /\ sceneBoxes = 0
    /\ scene = << >>
    /\ plate = NULL
    /\ onObjectiveMoveTo = TRUE
    /\ onWellSelection = TRUE
    /\ plateSelectionMode = "wells"
    /\ saveTimeout = FALSE
    /\ plateCursorPosition = NULL
    /\ objectiveFovPos = [x |-> QZero, y |-> QZero]
    /\ load = [pc |-> "idle"]
    /\ fontLoaded = FALSE
    /\ used = [wheel |-> 0, pan |-> 0, fit |-> 0, load |-> 0]
    /\ last = [ op |-> "initPlateNavigator", event |-> NoEvent, wasSelecting |-> FALSE,
                wellSelection |-> << >>, moveTo |-> << >>, warned |-> FALSE,
                coords |-> NotCalled ]
    /\ wn = NULL
    /\ wsm = NewManager
    /\ load2 = [pc |-> "idle"]

\* a call that has not returned yet has no result
NoResult == << >>

hasReturned == fcall # NULL /\ fcall.result # NoResult

\* the call in fcall returns r; nothing else changes
Returns(r) ==
    /\ fcall' = [fcall EXCEPT !.result = << r >>]
    /\ UNCHANGED << frame, camera, drag, selection, sceneBoxes, scene, plate,
                    onObjectiveMoveTo, onWellSelection, microscope_config,
                    plateSelectionMode, saveTimeout, plateCursorPosition, objectiveFovPos,
                    load, fontLoaded, used, last, wn, wsm, load2 >>

\* largest coordinate of the rectangles tried on the intersection test
MaxCoord == 2

\* rectangles with corners on the integer grid, the degenerate ones included
Rectangles ==
    { [minX |-> QInt(x0), maxX |-> QInt(x1), minY |-> QInt(y0), maxY |-> QInt(y1)] :
        x0 \in 0..MaxCoord, x1 \in 0..MaxCoord, y0 \in 0..MaxCoord, y1 \in 0..MaxCoord }

InitIntersects ==
    /\ Constructed
    /\ fcall \in { c \in [fn : {"intersects"}, a : Rectangles, b : Rectangles, result : {NoResult}] :
                      /\ QLe(c.a.minX, c.a.maxX) /\ QLe(c.a.minY, c.a.maxY)
                      /\ QLe(c.b.minX, c.b.maxX) /\ QLe(c.b.minY, c.b.maxY) }

\* the test applied to the pair in both orders
Intersects ==
    /\ fcall # NULL /\ fcall.fn = "intersects" /\ fcall.result = NoResult
    /\ Returns([ab |-> aabbIntersects(fcall.a, fcall.b), ba |-> aabbIntersects(fcall.b, fcall.a)])

NextIntersects == Intersects

SpecIntersects == InitIntersects /\ [][NextIntersects]_vars

\* a six-well plate as a server may offer it (type Wellplate); its well block is
\* not centred across the width of the plate
PlateSixWell ==
    [ Model_id            |-> "six-well",
      Num_wells_x         |-> 3,
      Num_wells_y         |-> 2,
      Length_mm           |-> Q(12776, 100),
      Width_mm            |-> Q(8547, 100),
      Well_size_x_mm      |-> Q(348, 10),
      Well_size_y_mm      |-> Q(348, 10),
      Offset_A1_x_mm      |-> Q(736, 100),
      Offset_A1_y_mm      |-> Q(576, 100),
      Well_distance_x_mm  |-> Q(3912, 100),
      Well_distance_y_mm  |-> Q(3912, 100) ]

\* plate geometries tried on the layout functions
PlateGeometries == { Plate96, Plate384, PlateSixWell }

\* the entries of a site mask over the default grid
MaskEntries == { [col |-> c, row |-> r] : c \in 0..(DefaultGrid.num_x - 1), r \in 0..(DefaultGrid.num_y - 1) }

InitSitePosition ==
    /\ Constructed
    /\ fcall \in { c \in [ fn : {"sitePosition"}, plate : PlateGeometries,
                            wellCol : 0..23, wellRow : 0..15, site : MaskEntries,
                            result : {NoResult} ] :
                      c.wellCol < c.plate.Num_wells_x /\ c.wellRow < c.plate.Num_wells_y }

\* where refreshWellColors draws the site and where selectSitesByWellArea tests it
SitePosition ==
    /\ fcall # NULL /\ fcall.fn = "sitePosition" /\ fcall.result = NoResult
    /\ Returns([ quad      |-> siteQuad(fcall.plate, DefaultGrid, fcall.site,
                                        fcall.wellCol, fcall.wellRow),
                 footprint |-> siteFootprint([wellplate_type |-> fcall.plate, grid |-> DefaultGrid],
                                             fcall.site, fcall.wellCol, fcall.wellRow) ])

NextSitePosition == SitePosition

SpecSitePosition == InitSitePosition /\ [][NextSitePosition]_vars

\* wells of a stored configuration: two header entries of an older layout
\* (col < 0 or row < 0) and two real wells
StoredWells == << [col |-> -1, row |-> 0], [col |-> 0, row |-> -1],
                 [col |-> 0, row |-> 0], [col |-> 1, row |-> 0] >>

\* a 2 x 2 acquisition grid and the entries of its mask, columns outermost
SmallGrid == [ num_x |-> 2, delta_x_mm |-> QOne, num_y |-> 2, delta_y_mm |-> QOne ]

SmallMask == << [col |-> 0, row |-> 0], [col |-> 0, row |-> 1],
               [col |-> 1, row |-> 0], [col |-> 1, row |-> 1] >>

\* configurations handed to refreshWellColors: every choice of well flags and of
\* mask flags
RefreshConfigs ==
    { [ wellplate_type |-> Plate96,
        plate_wells |-> [ i \in 1..Len(StoredWells) |->
                            [col |-> StoredWells[i].col, row |-> StoredWells[i].row,
                             selected |-> wsel[i]] ],
        grid |-> [ num_x |-> SmallGrid.num_x, delta_x_mm |-> SmallGrid.delta_x_mm,
                   num_y |-> SmallGrid.num_y, delta_y_mm |-> SmallGrid.delta_y_mm,
                   mask |-> [ i \in 1..Len(SmallMask) |->
                                [col |-> SmallMask[i].col, row |-> SmallMask[i].row,
                                 selected |-> msel[i]] ] ] ] :
        wsel \in [1..Len(StoredWells) -> BOOLEAN], msel \in [1..Len(SmallMask) -> BOOLEAN] }

InitRefresh ==
    /\ Constructed
    /\ fcall \in [fn : {"refreshWellColors"}, cfg : RefreshConfigs, result : {NoResult}]

\* refreshWellColors(cfg) on a navigator that shows the 96-well plate
RefreshCall ==
    /\ fcall # NULL /\ fcall.fn = "refreshWellColors" /\ fcall.result = NoResult
    /\ Returns(refreshWellColors(<< [name |-> objectNamePlate, aabb |-> plateAabb(Plate96)] >>,
                                  Plate96, fcall.cfg))

NextRefresh == RefreshCall

SpecRefresh == InitRefresh /\ [][NextRefresh]_vars

\* positions of the wells of the plate selector: two header entries and a grid
\* of 3 x 2 wells
RangePositions ==
    << [col |-> -1, row |-> 0], [col |-> 0, row |-> -1],
       [col |-> 0, row |-> 0], [col |-> 1, row |-> 0], [col |-> 2, row |-> 0],
       [col |-> 0, row |-> 1], [col |-> 1, row |-> 1], [col |-> 2, row |-> 1] >>

\* plate_wells with every choice of selected flags
RangeWells ==
    { [ i \in 1..Len(RangePositions) |->
          [ col |-> RangePositions[i].col, row |-> RangePositions[i].row, selected |-> f[i] ] ] :
        f \in [1..Len(RangePositions) -> BOOLEAN] }

\* a well of the list by its index, null for index 0
wellOrNull(ws, i) == IF i = 0 THEN NULL ELSE ws[i]

\* calls of toggleWellSelectionRange: from and to are wells of plate_wells, or null
InitRange ==
    /\ Constructed
    /\ fcall \in [ fn : {"toggleWellSelectionRange"}, plate_wells : RangeWells,
                    from : 0..Len(RangePositions), to : 0..Len(RangePositions),
                    result : {NoResult} ]

\* toggleWellSelectionRange(from, to) during a range selection started at a well
RangeCall ==
    /\ fcall # NULL /\ fcall.fn = "toggleWellSelectionRange" /\ fcall.result = NoResult
    /\ Returns(toggleWellSelectionRange(fcall.plate_wells,
                                         wellOrNull(fcall.plate_wells, Max(fcall.from, 1)),
                                         wellOrNull(fcall.plate_wells, fcall.from),
                                         wellOrNull(fcall.plate_wells, fcall.to)))

NextRange == RangeCall

SpecRange == InitRange /\ [][NextRange]_vars

\* camera boxes on which the zoom is applied: fresh, fitted to the plate, panned
ZoomCameras ==
    UNION { { cameraOfFrame(f),
              cameraFit(cameraOfFrame(f), plateAabb(Plate96)),
              cameraApplyDeltaPos(cameraOfFrame(f), [x |-> QInt(10), y |-> QInt(-7)]) } :
            f \in Frames }

\* relative zoom changes: zooming out of, slightly into and far into the view
ZoomDeltas == { Q(-1, 2), Q(1, 10), QOne }

PivotFractions == { QZero, Q(1, 4), QHalf, QOne }

\* the ratio argument: a pivot in [0,1] x [0,1], or omitted
ZoomRatios == [x : PivotFractions, y : PivotFractions] \cup { NULL }

InitZoom ==
    /\ Constructed
    /\ fcall \in { [fn |-> "cameraApplyDeltaZoom", cam |-> c, delta |-> d, ratio |-> r,
                     result |-> NoResult] :
                      c \in ZoomCameras, d \in ZoomDeltas, r \in ZoomRatios }

\* the ratio parameter of the call in fcall, defaulted when omitted
ratioOf(call) == IF call.ratio = NULL THEN DefaultRatio ELSE call.ratio

\* cameraApplyDeltaZoom(delta, ratio) on the camera of the call
ZoomCall ==
    /\ fcall # NULL /\ fcall.fn = "cameraApplyDeltaZoom" /\ fcall.result = NoResult
    /\ Returns(cameraApplyDeltaZoom(fcall.cam, fcall.delta, ratioOf(fcall)))

NextZoom == ZoomCall

SpecZoom == InitZoom /\ [][NextZoom]_vars

\* loads of one session that may follow each other
MaxReload == 2

\* plate types of different layout between which the session switches
ReloadPlates == << Plate96, PlateSixWell >>

\* configurations restored when the page is opened, for the plates of ReloadPlates
ReloadConfigs ==
    { [ wellplate_type |-> ReloadPlates[t],
        plate_wells    |-> wellsWithSelected(ReloadPlates[t], nsel),
        grid           |-> [ num_x |-> DefaultGrid.num_x, delta_x_mm |-> DefaultGrid.delta_x_mm,
                             num_y |-> DefaultGrid.num_y, delta_y_mm |-> DefaultGrid.delta_y_mm,
                             mask  |-> maskWithDeselected(DefaultGrid, ndesel) ] ] :
        t \in 1..Len(ReloadPlates), nsel \in 0..1, ndesel \in 0..1 }

InitReload ==
    /\ frame \in Frames
    /\ microscope_config \in ReloadConfigs
    /\ camera = cameraFit(cameraOfFrame(frame), plateAabb(microscope_config.wellplate_type))
    /\ drag = [active |-> FALSE, last |-> [x |-> 0, y |-> 0]]
    /\ selection = [ active |-> FALSE, mode |-> "select", start |-> [x |-> 0, y |-> 0],
                     current |-> [x |-> 0, y |-> 0], box |-> NULL ]
    /\ sceneBoxes = 0
    /\ scene = << >>
    /\ plate = NULL
    /\ onObjectiveMoveTo = TRUE
    /\ onWellSelection = TRUE
    /\ plateSelectionMode = "wells"
    /\ saveTimeout = FALSE
    /\ plateCursorPosition = NULL
    /\ objectiveFovPos = [x |-> QZero, y |-> QZero]
    /\ load = [pc |-> "idle"]
    /\ fontLoaded = FALSE
    /\ used = [wheel |-> 0, pan |-> 0, fit |-> 0, load |-> 0]
    /\ last = [ op |-> "initPlateNavigator", event |-> NoEvent, wasSelecting |-> FALSE,
                wellSelection |-> << >>, moveTo |-> << >>, warned |-> FALSE,
                coords |-> NotCalled ]
    /\ wn = NULL
    /\ fcall = NULL
    /\ wsm = NewManager
    /\ load2 = [pc |-> "idle"]

\* updatePlate calls one after the other, each run to its end, with either answer
\* of the forbidden-area fetch
NextReload ==
    \/ \E i \in 1..Len(ReloadPlates) :
          /\ used.load < MaxReload
          /\ UpdatePlateCall(ReloadPlates, [id |-> ReloadPlates[i].Model_id], FALSE)
    \/ \E areas \in ForbiddenAreaAnswers : UpdatePlateFetched(areas)
    \/ FontResolves
    \/ UpdatePlateFontLoaded

SpecReload == InitReload /\ [][NextReload]_vars

(***************************************************************************)
(* The WebSocketManager with its callers, sockets and timeouts             *)
(***************************************************************************)
MaxSockets == 3

\* a step of the manager leaves the navigator and the application alone
ManagerStep(m, op, s) ==
    /\ wsm' = [ m EXCEPT !.event = [ op |-> op, ws |-> s ] ]
    /\ UNCHANGED << frame, camera, drag, selection, sceneBoxes, scene, plate,
                    onObjectiveMoveTo, onWellSelection, microscope_config,
                    plateSelectionMode, saveTimeout, plateCursorPosition, objectiveFovPos,
                    load, fontLoaded, used, last, wn, fcall, load2 >>

CreateConnection(name, endpoint, options) ==
    /\ Len(wsm.sockets) < MaxSockets
    /\ ManagerStep(createConnection(wsm, name, endpoint, options, ByCaller),
                   "createConnection", Len(wsm.sockets) + 1)

CloseConnection(name) ==
    ManagerStep(closeConnection(wsm, name), "closeConnection", wsm.connections[name])

\* the connection of socket s is established: ws.onopen
SocketOpens(s) ==
    /\ wsm.sockets[s].readyState = "CONNECTING"
    /\ ManagerStep([ wsm EXCEPT !.sockets[s].readyState = "OPEN",
                                !.sockets[s].reconnectAttempts = 0 ], "open", s)

\* the connection of socket s fails: error event, then close event
SocketFails(s) ==
    /\ wsm.sockets[s].readyState \in { "CONNECTING", "OPEN" }
    /\ ManagerStep(socketClosed(wsm, s, TRUE), "fail", s)

\* the closing handshake of socket s ends, started by close() or by the server
SocketCloses(s) ==
    /\ wsm.sockets[s].readyState \in { "OPEN", "CLOSING" }
    /\ ManagerStep(socketClosed(wsm, s, wsm.sockets[s].failed), "close", s)

\* the oldest reconnect timeout expires
ReconnectTimeout ==
    /\ wsm.timers # << >>
    /\ Len(wsm.sockets) < MaxSockets
    /\ ManagerStep(reconnectTimeout(wsm), "reconnectTimeout", Head(wsm.timers).connectionData)

InitSocket ==
    /\ Constructed
    /\ fcall = NULL

NextSocket ==
    \/ \E name \in WsNames, endpoint \in WsEndpoints, options \in WsOptions :
          CreateConnection(name, endpoint, options)
    \/ \E name \in WsNames : CloseConnection(name)
    \/ \E s \in DOMAIN wsm.sockets : SocketOpens(s)
    \/ \E s \in DOMAIN wsm.sockets : SocketFails(s)
    \/ \E s \in DOMAIN wsm.sockets : SocketCloses(s)
    \/ ReconnectTimeout

SpecSocket == InitSocket /\ [][NextSocket]_vars

(***************************************************************************)
(* Panning, zooming and fitting while plates are loaded                    *)
(***************************************************************************)
\* pointer positions of the pan and zoom gestures: near the centre of the
\* canvas and near its lower left corner
ViewOffsets == { [x |-> 1600, y |-> 1300], [x |-> 125, y |-> 2600] }

NextView ==
    \/ \E o \in ViewOffsets :
          MouseDown([shiftKey |-> FALSE, button |-> 0, offsetX |-> o.x, offsetY |-> o.y])
    \/ \E o \in ViewOffsets : MouseMove([offsetX |-> o.x, offsetY |-> o.y])
    \/ MouseUp
    \/ \E d \in WheelDeltas, o \in ViewOffsets :
          Wheel([deltaY |-> d, offsetX |-> o.x, offsetY |-> o.y])
    \/ \E aabb \in FitBoxes : CameraFit(aabb)
    \/ UpdatePlateBegin([id |-> AllPlates[1].Model_id], FALSE)
    \/ UpdatePlateFetched(<< >>)
    \/ FontResolves
    \/ UpdatePlateFontLoaded

SpecView == Init /\ [][NextView]_vars

(***************************************************************************)
(* Two updatePlate calls that overlap, and redraws in between              *)
(***************************************************************************)
\* a second updatePlate call while the first one waits in loadPlate
OverlappingUpdatePlateCall(allplates, newplate_Model_id, force_override) ==
    /\ Quiescent
    /\ load.pc # "idle" /\ load2.pc = "idle"
    /\ microscope_config' =
          updatePlateStart(allplates, newplate_Model_id, force_override).microscope_config
    /\ saveTimeout' =
          (saveTimeout \/ updatePlateStart(allplates, newplate_Model_id, force_override).recreate)
    /\ scene' = updatePlateStart(allplates, newplate_Model_id, force_override).scene
    /\ plate' = updatePlateStart(allplates, newplate_Model_id, force_override).plate
    /\ load2' = [ pc |-> "fetch", previous |-> plate,
                  plate |-> updatePlateStart(allplates, newplate_Model_id, force_override).plate ]
    /\ camera' = cameraOfFrame(frame)
    /\ used' = [used EXCEPT !.load = @ + 1]
    /\ last' = Observation("updatePlate", newplate_Model_id)
    /\ UNCHANGED << frame, drag, selection, sceneBoxes, onObjectiveMoveTo, onWellSelection,
                    plateSelectionMode, plateCursorPosition, objectiveFovPos, fontLoaded, wn,
                    fcall, wsm, load >>

\* the forbidden-area fetch of the second call is answered; first: the second
\* call waits for the font before the first call does
OverlappingFetched(forbiddenAreas) ==
    /\ Quiescent
    /\ load2.pc = "fetch"
    /\ scene' = loadPlateFetched(scene, load2, microscope_config, forbiddenAreas).scene
    /\ load2' = loadPlateFetched(scene, load2, microscope_config, forbiddenAreas).load
                    @@ [ first |-> (load.pc # "font") ]
    /\ camera' = cameraFit(camera, plateAabb(load2.plate))
    /\ last' = Observation("loadPlate:fetched", NoEvent)
    /\ UNCHANGED << frame, drag, selection, sceneBoxes, plate, onObjectiveMoveTo,
                    onWellSelection, microscope_config, plateSelectionMode, saveTimeout,
                    plateCursorPosition, objectiveFovPos, fontLoaded, used, wn, fcall, wsm,
                    load >>

\* the second call continues after the font, and updatePlate redraws
OverlappingFontLoaded ==
    /\ load2.pc = "font"
    /\ fontLoaded
    /\ load.pc # "font"
    /\ scene' = refreshWellColors(loadPlateFinish(scene, load2, microscope_config),
                                  plate, microscope_config)
    /\ load2' = [pc |-> "idle"]
    /\ last' = Observation("loadPlate:done",
                           [ previous |-> load2.previous,
                             loaded   |-> loadPlateFinish(scene, load2, microscope_config) ])
    /\ UNCHANGED << frame, camera, drag, selection, sceneBoxes, plate, onObjectiveMoveTo,
                    onWellSelection, microscope_config, plateSelectionMode, saveTimeout,
                    plateCursorPosition, objectiveFovPos, fontLoaded, used, wn, fcall, wsm,
                    load >>

\* both calls wait for the font when it resolves: the two loadPlate calls
\* continue in the order in which they began to wait, then the two updatePlate
\* calls redraw
loadPlateFinishBoth(sc, cfg) ==
    IF load2.first
    THEN loadPlateFinish(loadPlateFinish(sc, load2, cfg), load, cfg)
    ELSE loadPlateFinish(loadPlateFinish(sc, load, cfg), load2, cfg)

BothFontLoaded ==
    /\ load.pc = "font" /\ load2.pc = "font"
    /\ fontLoaded
    /\ scene' = refreshWellColors(
                    refreshWellColors(loadPlateFinishBoth(scene, microscope_config),
                                      plate, microscope_config),
                    plate, microscope_config)
    /\ load' = [pc |-> "idle"]
    /\ load2' = [pc |-> "idle"]
    /\ last' = Observation("loadPlate:done",
                           [ previous |-> IF load2.first THEN load.previous ELSE load2.previous,
                             loaded   |-> loadPlateFinishBoth(scene, microscope_config) ])
    /\ UNCHANGED << frame, camera, drag, selection, sceneBoxes, plate, onObjectiveMoveTo,
                    onWellSelection, microscope_config, plateSelectionMode, saveTimeout,
                    plateCursorPosition, objectiveFovPos, fontLoaded, used, wn, fcall, wsm >>

NextOverlap ==
    \/ \E i \in 1..Len(ReloadPlates) :
          /\ used.load < MaxReload
          /\ UpdatePlateCall(ReloadPlates, [id |-> ReloadPlates[i].Model_id], FALSE)
    \/ \E i \in 1..Len(ReloadPlates) :
          /\ used.load < MaxReload
          /\ OverlappingUpdatePlateCall(ReloadPlates, [id |-> ReloadPlates[i].Model_id], FALSE)
    \/ UpdatePlateFetched(<< >>)
    \/ OverlappingFetched(<< >>)
    \/ FontResolves
    \/ UpdatePlateFontLoaded
    \/ OverlappingFontLoaded
    \/ BothFontLoaded
    \/ \E e \in { ev \in SelectEvents : ev.button = 0 } : MouseDown(e)
    \/ MouseUp
    \/ RefreshWellColors

SpecOverlap == InitReload /\ [][NextOverlap]_vars


(***************************************************************************)
(* Claims about the camera (SpecCamera)                                    *)
(***************************************************************************)
aabbCenter(aabb) ==
    [ x |-> QAdd(aabb.ax, QDiv(QSub(aabb.bx, aabb.ax), QTwo)),
      y |-> QAdd(aabb.ay, QDiv(QSub(aabb.by, aabb.ay), QTwo)) ]

\* the frustum of c is centred on aabb, has the aspect of the canvas f, contains
\* aabb and touches it along at least one axis
isFitted(c, aabb, f) ==
    /\ cameraCenter(c) = aabbCenter(aabb)
    /\ QLe(QSub(aabb.bx, aabb.ax), QSub(c.right, c.left))
    /\ QLe(QSub(aabb.by, aabb.ay), QSub(c.top, c.bottom))
    /\ \/ QSub(c.right, c.left) = QSub(aabb.bx, aabb.ax)
       \/ QSub(c.top, c.bottom) = QSub(aabb.by, aabb.ay)
    /\ QMul(QSub(c.right, c.left), QInt(f.height)) = QMul(QSub(c.top, c.bottom), QInt(f.width))

\* C1: after cameraFit(aabb), from any camera state reached by pans, wheel events
\* and fits, the camera box is centred on the centre of aabb and is the smallest
\* box of the viewport's aspect that contains aabb.
C1_FitCentresAndContains ==
    last.op = "cameraFit" => isFitted(camera, last.event, frame)

zoomLimitMin == Q(5, 100)

zoomLimitMax == Q(12, 10)

isZoomOperation == last.op \in {"wheel", "cameraFit"}

C9_WellNameExamples ==
    wn.name # Pending =>
        /\ (wn.x = 0  /\ wn.y = 0  => wn.name = "A01")
        /\ (wn.x = 1  /\ wn.y = 1  => wn.name = "B02")
        /\ (wn.x = 0  /\ wn.y = 10 => wn.name = "A11")
        /\ (wn.x = 26 /\ wn.y = 20 => wn.name = "a21")

(***************************************************************************)
(* Claims about pointer gestures (SpecGesture, SpecIdle, SpecSelect)       *)
(***************************************************************************)
\* C3: in every state reached by any sequence of pointer-down (with or without
\* shift, any button), pointer-move, pointer-up and pointer-leave events the pan
\* flag and the selection flag are never both true.
C3_PanSelectExclusive == ~(drag.active /\ selection.active)

isShiftDown == last.op = "mousedown" /\ last.event.shiftKey

\* the callback call of the pointer-up that just ran carries the session's mode
callbackGetsSessionMode ==
    (last.op = "mouseup" /\ Len(last.wellSelection) > 0) =>
        last.wellSelection[1].mode = selection.mode

\* C4 as stated: a shift pointer-down starts a session whose mode is 'select' for
\* the primary button and 'deselect' for every other button, and the callback on
\* pointer-up gets the mode the session started with.
C4_ModeByPrimaryButton ==
    /\ isShiftDown =>
          selection.mode = (IF last.event.button = 0 THEN "select" ELSE "deselect")
    /\ callbackGetsSessionMode

\* C4 as amended: the mode is 'deselect' for the secondary button (button 2) and
\* 'select' for every other button, the auxiliary (middle) button included; the
\* callback on pointer-up gets the mode the session started with.
C4_ModeBySecondaryButton ==
    /\ isShiftDown =>
          selection.mode = (IF last.event.button = 2 THEN "deselect" ELSE "select")
    /\ callbackGetsSessionMode

\* a session started with the middle button selects
C4_Witness ==
    isShiftDown /\ last.event.button = 1 /\ selection.active /\ selection.mode = "select"

\* C5: with a plate loaded and a selection callback registered, a pointer-up in an
\* active session calls the callback exactly once, with the session's mode, and
\* leaves the controller idle (selection inactive, pan inactive, no box
\* referenced); a pointer-up without an active session never calls it.
C5_PointerUpCallsOnce ==
    last.op = "mouseup" =>
        /\ (last.wasSelecting /\ plate # NULL /\ onWellSelection) =>
              /\ Len(last.wellSelection) = 1
              /\ last.wellSelection[1].mode = selection.mode
              /\ ~selection.active
              /\ ~drag.active
              /\ selection.box = NULL
        /\ ~last.wasSelecting => last.wellSelection = << >>

\* a pointer-up has ended a session on a loaded plate
C5_Witness ==
    /\ last.op = "mouseup" /\ last.wasSelecting /\ plate # NULL
    /\ Len(last.wellSelection) = 1

isWellOrSiteObject(obj) ==
    obj.name \in { objectNameWells, objectNameWellsSelected, objectNameSites,
                   objectNameSitesSelected, objectNameSitesUnselected }

\* C8: while no plate is loaded, gestures (pointer-down, moves, pointer-up),
\* double-clicks, refreshWellColors and updateObjectivePosition call neither the
\* selection callback nor the move callback nor the warning, and leave no well,
\* site or selection-box object in the scene once the gesture has ended.
C8_NoPlateNoOp ==
    plate = NULL =>
        /\ last.wellSelection = << >>
        /\ last.moveTo = << >>
        /\ ~last.warned
        /\ SelectSeq(scene, isWellOrSiteObject) = << >>
        /\ objectiveFovPos = [x |-> QZero, y |-> QZero]
        /\ noGesture => (sceneBoxes = 0 /\ selection.box = NULL)

\* a selection gesture has ended without a plate
C8_Witness ==
    plate = NULL /\ last.op = "mouseup" /\ last.wasSelecting /\ noGesture

\* C10: for the 96-well plate calculateWellPosition(plate, 0, 0) is (11.18, 71.04),
\* and a selection whose physical rectangle is x in [5, 25], y in [5, 25] hands
\* exactly the names A01, A02, B01, B02 to the selection callback.
C10_Wells96 ==
    plate = Plate96 =>
        /\ calculateWellPosition(plate, 0, 0) = [x |-> Q(1118, 100), y |-> Q(7104, 100)]
        /\ ( /\ last.op = "mouseup"
             /\ Len(last.wellSelection) = 1
             /\ last.wellSelection[1].selectionBounds =
                   [minX |-> QInt(5), maxX |-> QInt(25), minY |-> QInt(5), maxY |-> QInt(25)] )
           => last.wellSelection[1].wellNames = << "A01", "A02", "B01", "B02" >>

\* the callback has been called with the rectangle [5, 25] x [5, 25]
C10_Witness ==
    /\ plate = Plate96
    /\ last.op = "mouseup"
    /\ Len(last.wellSelection) = 1
    /\ last.wellSelection[1].selectionBounds =
          [minX |-> QInt(5), maxX |-> QInt(25), minY |-> QInt(5), maxY |-> QInt(25)]

(***************************************************************************)
(* Claims about pointer positions and double-clicks (SpecClick)            *)
(***************************************************************************)
withinPlate(p, pos) ==
    /\ QLe(QZero, pos.x) /\ QLe(pos.x, p.Length_mm)
    /\ QLe(QZero, pos.y) /\ QLe(pos.y, p.Width_mm)

\* C6: for every pixel offset, offsets outside the canvas included, and every
\* camera box, mouseToPlateCoordinates returns a point with 0 <= x <= Length_mm
\* and 0 <= y <= Width_mm when a plate is loaded, and null when none is.
C6_CoordinatesWithinPlate ==
    /\ last.op = "mousemove" =>
          IF plate = NULL THEN last.coords = NULL ELSE withinPlate(plate, last.coords)
    /\ (last.op = "dblclick" /\ plate # NULL) => withinPlate(plate, last.coords)

\* a pointer move left of and below the plate has been clamped to its corner
C6_Witness ==
    /\ last.op = "mousemove" /\ plate # NULL
    /\ last.coords = [x |-> QZero, y |-> plate.Width_mm]

\* the point of the plate's plane under the double-click lies on the plate
targetOnPlate ==
    LET at == cameraPointOf(camera, frame, last.event.offsetX, last.event.offsetY)
    IN  /\ QLe(QZero, at.x) /\ QLe(at.x, plate.Length_mm)
        /\ QLe(QZero, at.y) /\ QLe(at.y, plate.Width_mm)

\* C7: on a double-click with a plate loaded and a move callback registered, a
\* target within the plate calls the move callback with that point, and a target
\* outside the plate shows the warning and does not call the move callback.
C7_OutsideTargetWarns ==
    (last.op = "dblclick" /\ plate # NULL /\ onObjectiveMoveTo) =>
        IF targetOnPlate
        THEN last.moveTo = << last.coords >> /\ ~last.warned
        ELSE last.warned /\ last.moveTo = << >>

(***************************************************************************)
(* Claims about the intersection test (SpecIntersects)                     *)
(***************************************************************************)
\* the boxes are apart along the x axis or along the y axis, with a gap
strictlySeparated(a, b) ==
    \/ QLt(a.maxX, b.minX) \/ QLt(b.maxX, a.minX)
    \/ QLt(a.maxY, b.minY) \/ QLt(b.maxY, a.minY)

\* the boxes share a boundary point but no interior point
onlyTouching(a, b) ==
    /\ ~strictlySeparated(a, b)
    /\ \/ a.maxX = b.minX \/ b.maxX = a.minX \/ a.maxY = b.minY \/ b.maxY = a.minY

\* C11: the intersection test is symmetric, reflexive (also for zero-area
\* rectangles), takes rectangles that only touch for intersecting, and is false
\* exactly when the rectangles are strictly separated along some axis.
C11_IntersectionTest ==
    (hasReturned /\ fcall.fn = "intersects") =>
        LET r == fcall.result[1] IN
        /\ r.ab = r.ba
        /\ fcall.a = fcall.b => r.ab
        /\ onlyTouching(fcall.a, fcall.b) => r.ab
        /\ r.ab = ~strictlySeparated(fcall.a, fcall.b)

\* the test has been applied to a zero-area rectangle and one it touches at a corner
C11_Witness ==
    /\ hasReturned /\ fcall.fn = "intersects"
    /\ fcall.a.minX = fcall.a.maxX /\ fcall.a.minY = fcall.a.maxY
    /\ fcall.a # fcall.b
    /\ fcall.a.maxX = fcall.b.minX /\ fcall.a.maxY = fcall.b.minY
    /\ fcall.result[1].ab

(***************************************************************************)
(* Claims about site positions (SpecSitePosition)                          *)
(***************************************************************************)
\* the image of a backend rectangle in display coordinates
displayImage(box, p) ==
    LET c1 == transformBackendToDisplayCoordinates(box.minX, box.minY, p)
        c2 == transformBackendToDisplayCoordinates(box.maxX, box.maxY, p)
    IN  [ minX |-> QMin(c1.x, c2.x), maxX |-> QMax(c1.x, c2.x),
          minY |-> QMin(c1.y, c2.y), maxY |-> QMax(c1.y, c2.y) ]

\* C12: for every plate geometry, well and mask entry, the quad drawn for the
\* site is exactly the display image of the footprint used for hit-testing.
C12_RenderMatchesHitTest ==
    (hasReturned /\ fcall.fn = "sitePosition") =>
        fcall.result[1].quad = displayImage(fcall.result[1].footprint, fcall.plate)

(***************************************************************************)
(* Claims about site selection (SpecSites)                                 *)
(***************************************************************************)
\* the footprint of the site in some selected well of cfg meets bounds
footprintMeets(cfg, site, bounds) ==
    \E k \in 1..Len(cfg.plate_wells) :
        /\ isSelectedWell(cfg.plate_wells[k])
        /\ ~strictlySeparated(siteFootprint(cfg, site, cfg.plate_wells[k].col,
                                            cfg.plate_wells[k].row), bounds)

\* the mask the claim expects after selectSitesByWellArea(_, mode, bounds)
maskExpected(cfg, mode, bounds) ==
    [ i \in 1..Len(cfg.grid.mask) |->
        IF footprintMeets(cfg, cfg.grid.mask[i], bounds)
        THEN [cfg.grid.mask[i] EXCEPT !.selected = (mode = "select")]
        ELSE cfg.grid.mask[i] ]

noWellSelected(cfg) == \A k \in 1..Len(cfg.plate_wells) : ~isSelectedWell(cfg.plate_wells[k])

\* the step is a pointer-up that hands a selection to selectSitesByWellArea
isSiteSelectionStep(op, calls, selMode) ==
    op = "mouseup" /\ Len(calls) = 1 /\ selMode = "sites"

\* C13: in sites mode selectSitesByWellArea sets a mask entry to (mode = 'select')
\* exactly when its footprint in some selected well intersects the bounds, keeps
\* every other entry and every well flag, and changes nothing at all when no
\* well is selected.
C13_SitesFlipInSelectedWells ==
    [][ isSiteSelectionStep(last'.op, last'.wellSelection, plateSelectionMode) =>
          /\ microscope_config'.grid.mask =
                maskExpected(microscope_config, last'.wellSelection[1].mode,
                             last'.wellSelection[1].selectionBounds)
          /\ microscope_config'.plate_wells = microscope_config.plate_wells
          /\ noWellSelected(microscope_config) =>
                /\ microscope_config' = microscope_config
                /\ scene' = scene
                /\ saveTimeout' = saveTimeout ]_vars

\* a selection in sites mode has left the mask partly selected
C13_Witness ==
    /\ isSiteSelectionStep(last.op, last.wellSelection, plateSelectionMode)
    /\ ~noWellSelected(microscope_config)
    /\ \E i \in 1..Len(microscope_config.grid.mask) : microscope_config.grid.mask[i].selected
    /\ \E i \in 1..Len(microscope_config.grid.mask) : ~microscope_config.grid.mask[i].selected

(***************************************************************************)
(* Claims about the batches refreshWellColors builds (SpecRefresh)         *)
(***************************************************************************)
\* where the claim expects sites: the mask entries with the given flag, in the
\* wells that are selected and are not header entries
sitesExpected(p, cfg, flag) ==
    { calculateSitePosition(calculateWellPosition(p, w.col, w.row).x,
                            calculateWellPosition(p, w.col, w.row).y,
                            p.Well_size_x_mm, p.Well_size_y_mm, st.col, st.row,
                            cfg.grid.num_x, cfg.grid.num_y,
                            cfg.grid.delta_x_mm, cfg.grid.delta_y_mm,
                            Objective.fovx, Objective.fovy) :
        w \in { cfg.plate_wells[k] : k \in { j \in 1..Len(cfg.plate_wells) :
                    /\ cfg.plate_wells[j].selected
                    /\ cfg.plate_wells[j].col >= 0 /\ cfg.plate_wells[j].row >= 0 } },
        st \in { cfg.grid.mask[k] : k \in { j \in 1..Len(cfg.grid.mask) :
                    cfg.grid.mask[j].selected = flag } } }

\* the batches of that name in the scene
batchesNamed(sc, name) == SelectSeq(sc, LAMBDA obj : obj.name = name)

\* the scene holds the sites of the claim under that name: no batch when there
\* are none, else one batch with one transform for each
holdsSites(sc, name, expected) ==
    IF expected = {}
    THEN batchesNamed(sc, name) = << >>
    ELSE /\ Len(batchesNamed(sc, name)) = 1
         /\ batchesNamed(sc, name)[1].count = Cardinality(expected)
         /\ Len(batchesNamed(sc, name)[1].matrices) = Cardinality(expected)
         /\ { batchesNamed(sc, name)[1].matrices[i] :
                 i \in 1..Len(batchesNamed(sc, name)[1].matrices) } = expected

\* C14: after refreshWellColors(config) no site transform belongs to a well that
\* is unselected or a header entry; the selected-site batch holds (selected
\* non-header wells) x (selected mask entries) transforms and the
\* unselected-site batch (selected non-header wells) x (unselected mask entries).
C14_SiteFilter ==
    (hasReturned /\ fcall.fn = "refreshWellColors") =>
        /\ holdsSites(fcall.result[1], objectNameSitesSelected,
                      sitesExpected(Plate96, fcall.cfg, TRUE))
        /\ holdsSites(fcall.result[1], objectNameSitesUnselected,
                      sitesExpected(Plate96, fcall.cfg, FALSE))

\* a refresh with an unselected well, a selected header entry, a selected well
\* and a mask of both kinds has drawn sites
C14_Witness ==
    /\ hasReturned /\ fcall.fn = "refreshWellColors"
    /\ fcall.cfg.plate_wells[1].selected
    /\ fcall.cfg.plate_wells[3].selected /\ ~fcall.cfg.plate_wells[4].selected
    /\ fcall.cfg.grid.mask[1].selected /\ ~fcall.cfg.grid.mask[2].selected
    /\ Len(batchesNamed(fcall.result[1], objectNameSitesSelected)) = 1
    /\ Len(batchesNamed(fcall.result[1], objectNameSitesUnselected)) = 1

(***************************************************************************)
(* Claims about redrawing (SpecRedraw)                                     *)
(***************************************************************************)
\* the well and site batches of the scene, in scene order
wellAndSiteBatches(sc) == SelectSeq(sc, isWellOrSiteObject)

atMostOneBatchPerName(sc) ==
    \A i, j \in 1..Len(wellAndSiteBatches(sc)) :
        wellAndSiteBatches(sc)[i].name = wellAndSiteBatches(sc)[j].name => i = j

\* C15: a second refreshWellColors with the same configuration leaves the same
\* well and site batches as the first: at most one batch per name, with the same
\* instance counts and the same transforms in the same order.
C15_RefreshIdempotent ==
    last.op = "refreshWellColors" =>
        /\ atMostOneBatchPerName(scene)
        /\ wellAndSiteBatches(refreshWellColors(scene, plate, microscope_config))
              = wellAndSiteBatches(scene)

\* a pointer-up has ended a gesture in wells mode on a plate and the selection
\* callback was called with the names of the wells under the box
isWellSelectionDone ==
    /\ last.op = "mouseup" /\ Len(last.wellSelection) = 1
    /\ Len(last.wellSelection[1].wellNames) > 0
    /\ plateSelectionMode = "wells" /\ plate # NULL

\* C16: when a shift-drag gesture in wells mode ends, the well and site batches in
\* the scene are, on return of the pointer-up handler, the ones built from the
\* updated flags: no batch built from older flags is left to render.
C16_SelectionRenderedAtOnce ==
    isWellSelectionDone =>
        wellAndSiteBatches(scene)
          = wellAndSiteBatches(refreshWellColors(<< >>, plate, microscope_config))

(***************************************************************************)
(* Claims about updatePlate (SpecPlates)                                   *)
(***************************************************************************)
\* the step is the synchronous part of a call of updatePlate
isUpdatePlateStep == load.pc = "idle" /\ load'.pc = "fetch" /\ last'.op = "updatePlate"

\* ws holds exactly one entry per (col, row) of plate type p, none selected
isFreshWellSet(ws, p) ==
    /\ Len(ws) = p.Num_wells_x * p.Num_wells_y
    /\ \A i \in 1..Len(ws) :
          /\ ws[i].col \in 0..(p.Num_wells_x - 1)
          /\ ws[i].row \in 0..(p.Num_wells_y - 1)
          /\ ~ws[i].selected
    /\ \A i, j \in 1..Len(ws) :
          (ws[i].col = ws[j].col /\ ws[i].row = ws[j].row) => i = j

\* C17: when updatePlate switches the configuration to a plate type with another
\* Model_id, plate_wells afterwards holds exactly one entry per (col, row) of the
\* new plate, all with selected = false.
C17_WellsRecreatedOnPlateChange ==
    [][ (/\ isUpdatePlateStep
         /\ microscope_config'.wellplate_type.Model_id # microscope_config.wellplate_type.Model_id)
        => isFreshWellSet(microscope_config'.plate_wells, microscope_config'.wellplate_type) ]_vars

flagsOf(s) == [ i \in 1..Len(s) |-> s[i].selected ]

\* C18: updatePlate called with an argument that is not a string leaves every
\* well's selected flag and every mask entry's selected flag as it was.
C18_ViewUpdateKeepsFlags ==
    [][ (isUpdatePlateStep /\ last'.event = NULL)
        => /\ flagsOf(microscope_config'.plate_wells) = flagsOf(microscope_config.plate_wells)
           /\ flagsOf(microscope_config'.grid.mask) = flagsOf(microscope_config.grid.mask) ]_vars

(***************************************************************************)
(* Claims about zooming at a pivot (SpecZoom)                              *)
(***************************************************************************)
\* the world point at the fractions ratio of the camera box, x measured from the
\* left edge and y from the top edge
pivotPoint(c, ratio) ==
    [ x |-> QAdd(c.left, QMul(ratio.x, QSub(c.right, c.left))),
      y |-> QSub(c.top, QMul(ratio.y, QSub(c.top, c.bottom))) ]

\* C19: cameraApplyDeltaZoom(delta, pivot) multiplies cam.zoom and the width and
\* height of the camera box by (1 + delta) and leaves the world point at the pivot
\* fraction (from the left edge in x, from the top edge in y) where it was; with
\* the pivot omitted the centre of the camera box stays where it was.
C19_ZoomAtPivot ==
    (hasReturned /\ fcall.fn = "cameraApplyDeltaZoom") =>
        /\ fcall.result[1].zoom = QMul(fcall.cam.zoom, QAdd(QOne, fcall.delta))
        /\ QSub(fcall.result[1].right, fcall.result[1].left)
              = QMul(QSub(fcall.cam.right, fcall.cam.left), QAdd(QOne, fcall.delta))
        /\ QSub(fcall.result[1].top, fcall.result[1].bottom)
              = QMul(QSub(fcall.cam.top, fcall.cam.bottom), QAdd(QOne, fcall.delta))
        /\ pivotPoint(fcall.result[1], ratioOf(fcall)) = pivotPoint(fcall.cam, ratioOf(fcall))
        /\ fcall.ratio = NULL => cameraCenter(fcall.result[1]) = cameraCenter(fcall.cam)

\* a zoom into a panned view about a pivot off the centre and off the diagonal
\* has moved all four edges of the box
C19_Witness ==
    /\ hasReturned /\ fcall.fn = "cameraApplyDeltaZoom"
    /\ fcall.ratio # NULL /\ fcall.ratio.x = Q(1, 4) /\ fcall.ratio.y = QOne
    /\ fcall.delta = Q(1, 10)
    /\ cameraCenter(fcall.cam) # [x |-> QZero, y |-> QZero]
    /\ fcall.result[1].left # fcall.cam.left /\ fcall.result[1].right # fcall.cam.right
    /\ fcall.result[1].top # fcall.cam.top /\ fcall.result[1].bottom = fcall.cam.bottom

(***************************************************************************)
(* Claims about selecting wells by name (SpecNames)                        *)
(***************************************************************************)
isNamed(well, wellNames) ==
    /\ isRealWell(well)
    /\ \E k \in 1..Len(wellNames) : wellNames[k] = makeWellName(well.col, well.row)

\* no two wells of ws at different positions have the same name
namesDistinct(ws) ==
    \A i, j \in 1..Len(ws) :
        (/\ isRealWell(ws[i]) /\ isRealWell(ws[j])
         /\ makeWellName(ws[i].col, ws[i].row) = makeWellName(ws[j].col, ws[j].row))
        => (ws[i].col = ws[j].col /\ ws[i].row = ws[j].row)

\* C20: selectWellsByNames(names, mode) sets selected to (mode = 'select') on
\* exactly the non-header wells whose name is in names and leaves every other
\* well's flag and every mask entry as it was; wells at different positions have
\* different names; a second call with the same arguments changes no flag.
C20_SelectByNames ==
    [][ last'.op = "selectWellsByNames" =>
          /\ Len(microscope_config'.plate_wells) = Len(microscope_config.plate_wells)
          /\ \A i \in 1..Len(microscope_config.plate_wells) :
                /\ microscope_config'.plate_wells[i].col = microscope_config.plate_wells[i].col
                /\ microscope_config'.plate_wells[i].row = microscope_config.plate_wells[i].row
                /\ microscope_config'.plate_wells[i].selected =
                      IF isNamed(microscope_config.plate_wells[i], last'.event.wellNames)
                      THEN (last'.event.mode = "select")
                      ELSE microscope_config.plate_wells[i].selected
          /\ microscope_config'.grid = microscope_config.grid
          /\ namesDistinct(microscope_config.plate_wells)
          /\ selectWellsByNames(microscope_config'.plate_wells, last'.event.wellNames,
                                last'.event.mode) = microscope_config'.plate_wells ]_vars

\* a deselection by names that include a well with a three-digit column and the
\* text of a header entry has cleared the named wells and kept the other flags
C20_Witness ==
    /\ last.op = "selectWellsByNames" /\ last.event.mode = "deselect"
    /\ last.event.wellNames = << "A10", "A100" >>
    /\ ~microscope_config.plate_wells[4].selected
    /\ ~microscope_config.plate_wells[6].selected
    /\ microscope_config.plate_wells[1].selected
    /\ microscope_config.plate_wells[3].selected
    /\ microscope_config.plate_wells[5].selected
    /\ ~microscope_config.grid.mask[1].selected

(***************************************************************************)
(* Claims about the end of a gesture (SpecGesture)                         *)
(***************************************************************************)
\* C21: a pan or selection gesture is ended by a pointer-up and by a
\* pointer-leave event, after which neither drag.active nor selection.active is
\* true; pointer-move, wheel and double-click events leave both flags as they are.
C21_GestureEndsOnUpOrLeave ==
    [][ /\ last'.op \in {"mouseup", "mouseleave"} => (~drag'.active /\ ~selection'.active)
        /\ last'.op \in {"mousemove", "wheel", "dblclick"} =>
              (drag'.active = drag.active /\ selection'.active = selection.active) ]_vars

(***************************************************************************)
(* Claims about range selection in the plate selector (SpecRange)          *)
(***************************************************************************)
\* v lies between a and b, whichever of them is smaller
isBetween(v, a, b) == (a <= v /\ v <= b) \/ (b <= v /\ v <= a)

\* C22: toggleWellSelectionRange(from, to) with both wells given sets every
\* non-header well in the inclusive rectangle spanned by from and to, in either
\* corner order, to the negation of from.selected before the call and leaves the
\* wells outside the rectangle unchanged; with from or to null no flag changes and
\* start_selected_well is null afterwards.
C22_RangeToggle ==
    (hasReturned /\ fcall.fn = "toggleWellSelectionRange") =>
        IF fcall.from = 0 \/ fcall.to = 0
        THEN /\ fcall.result[1].plate_wells = fcall.plate_wells
             /\ fcall.result[1].start_selected_well = NULL
        ELSE /\ Len(fcall.result[1].plate_wells) = Len(fcall.plate_wells)
             /\ \A i \in 1..Len(fcall.plate_wells) :
                   /\ fcall.result[1].plate_wells[i].col = fcall.plate_wells[i].col
                   /\ fcall.result[1].plate_wells[i].row = fcall.plate_wells[i].row
                   /\ fcall.result[1].plate_wells[i].selected =
                         IF /\ isRealWell(fcall.plate_wells[i])
                            /\ isBetween(fcall.plate_wells[i].row, fcall.plate_wells[fcall.from].row,
                                         fcall.plate_wells[fcall.to].row)
                            /\ isBetween(fcall.plate_wells[i].col, fcall.plate_wells[fcall.from].col,
                                         fcall.plate_wells[fcall.to].col)
                         THEN ~fcall.plate_wells[fcall.from].selected
                         ELSE fcall.plate_wells[i].selected

\* a range from the lower-right well, selected, up to the upper-left well has
\* deselected the whole grid, wells that were not selected included
C22_Witness ==
    /\ hasReturned /\ fcall.fn = "toggleWellSelectionRange"
    /\ fcall.from = 8 /\ fcall.to = 3
    /\ fcall.plate_wells[8].selected /\ ~fcall.plate_wells[4].selected
    /\ fcall.plate_wells[5].selected /\ fcall.plate_wells[1].selected
    /\ \A i \in 3..8 : ~fcall.result[1].plate_wells[i].selected
    /\ fcall.result[1].plate_wells[1].selected

(***************************************************************************)
(* Claims about loading one plate after the other (SpecReload)             *)
(***************************************************************************)
isBatchOrLabels(obj) == isWellOrSiteObject(obj) \/ obj.name = objectNameText

\* the well, site and label batches that belong to plate type p and configuration cfg
batchesBuiltFrom(p, cfg) ==
    refreshWellColors(<< [ name |-> objectNameText,
                           labels |-> wellLabels(p, filter(cfg.plate_wells, isRealWell)) ] >>,
                      p, cfg)

\* loadPlate has returned from a call with a plate type other than the one shown
isPlateChanged ==
    /\ last.op = "loadPlate:done"
    /\ last.event.previous # NULL
    /\ last.event.previous.Model_id # plate.Model_id

\* C23: when loadPlate was called with a plate whose Model_id differs from the
\* loaded one, every well, label and site batch in the scene on its return was
\* built from the new plate and the configuration of the call: none built for the
\* previous plate is left.
C23_OldBatchesRemoved ==
    isPlateChanged =>
        \A i \in 1..Len(last.event.loaded) :
            isBatchOrLabels(last.event.loaded[i]) =>
                \E j \in 1..Len(batchesBuiltFrom(plate, microscope_config)) :
                    batchesBuiltFrom(plate, microscope_config)[j] = last.event.loaded[i]

\* the objects of the scene with the given name, in scene order
objectsNamed(sc, name) == SelectSeq(sc, LAMBDA obj : obj.name = name)

\* the forbidden-area mesh drawn on plate type p for a non-empty answer of the fetch
isForbiddenMeshOf(obj, p) ==
    \E areas \in ForbiddenAreaAnswers :
        /\ Len(areas) > 0
        /\ obj.quads = [ i \in 1..Len(areas) |-> forbiddenQuad(areas[i], p) ]

\* C24: after any number of completed loads, one after the other, the scene holds
\* exactly one plate background mesh and at most one forbidden-area mesh, which
\* was built from the areas of the latest fetch for the plate now shown.
C24_NoAccumulation ==
    last.op = "loadPlate:done" =>
        /\ Len(objectsNamed(scene, objectNamePlate)) = 1
        /\ Len(objectsNamed(scene, objectNameForbiddenAreas)) <= 1
        /\ \A i \in 1..Len(objectsNamed(scene, objectNameForbiddenAreas)) :
              isForbiddenMeshOf(objectsNamed(scene, objectNameForbiddenAreas)[i], plate)

(***************************************************************************)
(* C25: closeConnection(name) prevents reconnection: no reconnect timeout   *)
(* that was scheduled before a closeConnection(name) call creates a        *)
(* connection under that name or replaces one the caller created           *)
(* afterwards; a connection that exists is the one a createConnection call *)
(* asked for, or the reconnect of one that was not closed since.           *)
(***************************************************************************)
isStaleReconnect(ws) == ws.origin.by = "reconnect" /\ ws.origin.closedSince

C25_CloseStopsReconnect ==
    \A s \in DOMAIN wsm.sockets : ~isStaleReconnect(wsm.sockets[s])

(***************************************************************************)
(* C30: one failure of the current socket of a connection created with     *)
(* autoReconnect (an error event followed by a close event) schedules      *)
(* exactly one reconnect; the events of a socket that is no longer the     *)
(* current one schedule none; and at any time at most one socket per name  *)
(* is neither closed nor closing.                                          *)
(***************************************************************************)
isCurrent(m, s) == m.connections[m.sockets[s].name] = s

\* this step dispatches the events op of socket s
isSocketEvent(op, s) ==
    /\ wsm'.event = [ op |-> op, ws |-> s ]
    /\ wsm.sockets[s].readyState # "CLOSED"
    /\ wsm'.sockets[s].readyState = "CLOSED"

\* the reconnects the events of socket s are to schedule
scheduledBy(s) == IF isCurrent(wsm, s) /\ wsm.sockets[s].autoReconnect THEN 1 ELSE 0

isLive(ws) == ws.readyState \in { "CONNECTING", "OPEN" }

liveSockets(m, name) == { s \in DOMAIN m.sockets : m.sockets[s].name = name /\ isLive(m.sockets[s]) }

C30_OneReconnectPerFailure ==
    /\ [](\A name \in WsNames : Cardinality(liveSockets(wsm, name)) <= 1)
    /\ [][ \A s \in DOMAIN wsm.sockets : \A op \in { "fail", "close" } :
              isSocketEvent(op, s) => Len(wsm'.timers) = Len(wsm.timers) + scheduledBy(s) ]_vars

(***************************************************************************)
(* C26: camera box and zoom stay synchronized: in every state reachable by *)
(* pans, wheel zooms, cameraFit calls and plate loads on a canvas of fixed *)
(* size, the box is as wide as the canvas times cam.zoom and as high as    *)
(* the canvas times cam.zoom, so that a pan by the distance the pointer    *)
(* moved keeps the world point under the pointer.                          *)
(***************************************************************************)
isSynchronized(c, canvas) ==
    /\ QSub(c.right, c.left) = QMul(QInt(canvas.width), c.zoom)
    /\ QSub(c.top, c.bottom) = QMul(QInt(canvas.height), c.zoom)

\* this step is a mousemove that pans the camera
isPanStep ==
    /\ last'.op = "mousemove"
    /\ drag.active /\ ~selection.active
    /\ used'.pan = used.pan + 1

C26_CameraSynchronized ==
    /\ []isSynchronized(camera, frame)
    /\ [][ isPanStep => cameraPointOf(camera', frame, drag'.last.x, drag'.last.y)
                            = cameraPointOf(camera, frame, drag.last.x, drag.last.y) ]_vars

\* panned, zoomed and fitted, a plate loaded, away from zoom 1
C26_Witness ==
    /\ used.pan > 0 /\ used.wheel > 0 /\ used.fit > 0
    /\ last.op = "mousemove" /\ drag.active
    /\ plate # NULL /\ load.pc = "idle" /\ used.load > 0
    /\ camera.zoom # QOne

(***************************************************************************)
(* C27: the selection-rectangle overlay never leaks: in every state        *)
(* reachable by pointer events, two shift pointer-downs before one         *)
(* pointer-up included, the scene holds at most one selection-box mesh,    *)
(* and none while no selection session is active.                          *)
(***************************************************************************)
C27_SelectionBoxNeverLeaks ==
    /\ sceneBoxes <= 1
    /\ ~selection.active => sceneBoxes = 0

(***************************************************************************)
(* C28: under every interleaving, at loadPlate's awaits, of two            *)
(* overlapping loadPlate calls with each other and with the redraws that   *)
(* selection gestures trigger, the scene never holds two batches of the    *)
(* same name (wells, selected wells, selected sites, unselected sites,     *)
(* well labels); and once all calls have completed, the well and site      *)
(* batches are the ones the current selection flags ask for.               *)
(***************************************************************************)
BatchNames ==
    { objectNameWells, objectNameWellsSelected, objectNameSitesSelected,
      objectNameSitesUnselected, objectNameText }

allCallsCompleted == load.pc = "idle" /\ load2.pc = "idle" /\ used.load > 0

C28_OneBatchPerName ==
    /\ \A name \in BatchNames : Len(objectsNamed(scene, name)) <= 1
    /\ allCallsCompleted =>
          wellAndSiteBatches(scene) = wellAndSiteBatches(batchesBuiltFrom(plate, microscope_config))

(***************************************************************************)
(* C29: because mouseToPlateCoordinates clamps, the validation never       *)
(* rejects a double-click: for every double-click position and camera      *)
(* state, with a plate loaded and a move callback registered,              *)
(* handleDoubleClick invokes the move callback once, with the clicked      *)
(* point or, when that lies outside the plate, the nearest point of the    *)
(* plate rectangle, and the warning is not shown.                          *)
(***************************************************************************)
\* v, or the end of the interval from lo to hi it lies beyond
nearestIn(lo, hi, v) == IF QLt(v, lo) THEN lo ELSE IF QLt(hi, v) THEN hi ELSE v

\* the display point under the pointer of the double-click that ran last
clickedPoint == cameraPointOf(camera, frame, last.event.offsetX, last.event.offsetY)

isClickOutsidePlate ==
    \/ QLt(clickedPoint.x, QZero) \/ QLt(plate.Length_mm, clickedPoint.x)
    \/ QLt(clickedPoint.y, QZero) \/ QLt(plate.Width_mm, clickedPoint.y)

isDoubleClickOnPlate == last.op = "dblclick" /\ plate # NULL /\ onObjectiveMoveTo

C29_DoubleClickAlwaysMoves ==
    isDoubleClickOnPlate =>
        /\ ~last.warned
        /\ last.moveTo =
              << [ x |-> nearestIn(QZero, plate.Length_mm, clickedPoint.x),
                   y |-> QSub(plate.Width_mm,
                              nearestIn(QZero, plate.Width_mm, clickedPoint.y)) ] >>

\* a double-click outside the plate has moved the objective to the plate's edge
C29_Witness ==
    /\ isDoubleClickOnPlate
    /\ isClickOutsidePlate
    /\ Len(last.moveTo) = 1
    /\ last.moveTo[1].y \in { QZero, plate.Width_mm }

====
